---- MODULE Spec2Model ----
(***************************************************************************)
(* Model of the shade browser extension's content script                   *)
(* (extension/src/content/index.ts): field classification, the idempotent  *)
(* scan of a mutating page, the submit/click triggers, the MFA wait, the   *)
(* debounce record and the outcome poll loop.                              *)
(*                                                                         *)
(* Time is in milliseconds and advances in steps of the poll period        *)
(* (500 ms), never past an armed timer: a setTimeout callback runs at its  *)
(* deadline.  Date.now() itself is not stored.  Every timestamp T the      *)
(* script keeps (lastSentLogin.timestamp, pendingLoginData.timestamp,      *)
(* startTime) is held as its age Date.now() - T, which is the only thing   *)
(* the script ever computes from it, and every deadline as the time left.  *)
(* An age that is only compared with DEBOUNCE_TIME stops growing there.    *)
(* Callbacks of one page context never run in parallel, so every handler   *)
(* is one atomic action.                                                   *)
(*                                                                         *)
(* The background script (extension/src/background/index.ts, utils.ts)     *)
(* handles one message at a time: loadConfig, the enabled test, the        *)
(* username filters, the endpoint test, the hash and the fetch call.  The  *)
(* backend is the register handler (pkg/service/login/endpoints.go) with   *)
(* the HIBP service, client and cache (pkg/service/hibp) and the memory    *)
(* store.  Its clock is in minutes and advances in steps of half a sweep   *)
(* interval; a cache entry holds the age of its time stamp.  The handler   *)
(* is one atomic action; the answer of the range API is its input.         *)
(***************************************************************************)
EXTENDS Integers, Sequences, FiniteSets, TLC

VARIABLES
  pc,                \* "loading" before initialize() has run, then "ready"
  dom,               \* elements currently in the document
  value,             \* value of every input element
  url,               \* window.location.href (index of the path visited)
  failureShown,      \* the document matches isLoginFailure()
  successShown,      \* the document matches isLoginSuccess()
  formData,          \* formData['username'], formData['password']
  passwordFields,    \* let passwordFields
  usernameFields,    \* let usernameFields
  mfaFields,         \* let mfaFields
  hasMFADetected,    \* let hasMFADetected
  detectedMFAType,   \* let detectedMFAType
  monitoredElements, \* const monitoredElements (WeakSet)
  listeners,         \* per element: how many times listeners were attached
  lastSentLogin,     \* let lastSentLogin
  pendingLoginData,  \* let pendingLoginData
  timers,            \* armed MFA-wait setTimeout callbacks
  monitors,          \* armed checkResult callbacks, one per running poll loop
  messages,          \* LOGIN_DETECTED messages passed to chrome.runtime.sendMessage
  nextId,            \* next timeoutId / attempt number
  history,           \* per attempt: what has happened to it (observation only)
  scope,             \* what the user and the page do in this run (never changes)
  fd,                \* classifier check: the field descriptor under test
  cls,               \* classifier check: the role computed for fd
  background,        \* the background script and what it has sent
  backend            \* the register endpoint, its HIBP cache and its store

vars == <<pc, dom, value, url, failureShown, successShown, formData,
          passwordFields, usernameFields, mfaFields, hasMFADetected,
          detectedMFAType, monitoredElements, listeners, lastSentLogin,
          pendingLoginData, timers, monitors, messages, nextId, history,
          scope, fd, cls, background, backend>>

\* the state of the page context, of the background script and of the backend
pageVars == <<pc, dom, value, url, failureShown, successShown, formData,
              passwordFields, usernameFields, mfaFields, hasMFADetected,
              detectedMFAType, monitoredElements, listeners, lastSentLogin,
              pendingLoginData, timers, monitors, messages, nextId, history,
              scope, fd, cls>>
coordVars == <<background>>
backVars == <<backend>>

\* the background script
config == background.config        \* chrome.storage.local 'config'
delivered == background.delivered  \* how many of messages it has handled
lastReply == background.lastReply  \* what sendResponse was given last
requests == background.requests    \* fetch calls made by sendToBackend
calls == background.calls          \* loadConfig calls: what storage.get read
returned == background.returned    \* device ids loadConfig has resolved with

\* the backend
handled == backend.handled            \* how many of requests it has served
entries == backend.entries            \* hibp Cache.entries: hash -> CacheEntry
ticker == backend.ticker              \* time to the next tick of the cleanup ticker
storeData == backend.storeData        \* InMemoryStore.data
hibpResults == backend.hibpResults    \* InMemoryStore.hibpResults
lastResponse == backend.lastResponse  \* the response to the last register request
lastCheck == backend.lastCheck        \* the Service.CheckPasswordHash call of this
                                      \* instant (observation only)
storeToken == backend.token           \* InMemoryStore.token
mutex == backend.mutex                \* hibp Cache.mutex
routines == backend.routines          \* goroutines inside the cache methods
storeMutex == backend.storeMutex      \* InMemoryStore.mutex
storeRoutines == backend.storeRoutines \* goroutines inside the store methods

(***************************************************************************)
(* Bounds of the model.                                                    *)
(***************************************************************************)
MaxAttempts == 2    \* attempts created by triggers
MaxNav == 1         \* location changes of the page

(***************************************************************************)
(* Program constants.                                                      *)
(***************************************************************************)
DEBOUNCE_TIME == 1000
MFA_WAIT_TIME == 8000
LOGIN_SUCCESS_WAIT_TIME == 5000
PollInterval == 500
InitialDelay == 1000
MaxLengthLow == 4
MaxLengthHigh == 8

(***************************************************************************)
(* Strings are sequences of characters, so that String.includes and        *)
(* String.toLowerCase are computed, not assumed.                           *)
(***************************************************************************)
LowerChar(c) ==
  CASE c = "A" -> "a"
    [] c = "B" -> "b"
    [] c = "C" -> "c"
    [] c = "D" -> "d"
    [] c = "E" -> "e"
    [] c = "F" -> "f"
    [] c = "G" -> "g"
    [] c = "H" -> "h"
    [] c = "I" -> "i"
    [] c = "J" -> "j"
    [] c = "K" -> "k"
    [] c = "L" -> "l"
    [] c = "M" -> "m"
    [] c = "N" -> "n"
    [] c = "O" -> "o"
    [] c = "P" -> "p"
    [] c = "Q" -> "q"
    [] c = "R" -> "r"
    [] c = "S" -> "s"
    [] c = "T" -> "t"
    [] c = "U" -> "u"
    [] c = "V" -> "v"
    [] c = "W" -> "w"
    [] c = "X" -> "x"
    [] c = "Y" -> "y"
    [] c = "Z" -> "z"
    [] OTHER -> c

ToLowerCase(s) == [i \in 1..Len(s) |-> LowerChar(s[i])]

Includes(s, p) ==
  \E i \in 0..(Len(s) - Len(p)) :
     \A j \in 1..Len(p) : s[i + j] = p[j]

S_empty == <<>>
S_password == <<"p","a","s","s","w","o","r","d">>
S_email == <<"e","m","a","i","l">>
S_text == <<"t","e","x","t">>
S_number == <<"n","u","m","b","e","r">>
S_tel == <<"t","e","l">>
S_checkbox == <<"c","h","e","c","k","b","o","x">>
S_user == <<"u","s","e","r">>
S_username == <<"u","s","e","r","n","a","m","e">>
S_login == <<"l","o","g","i","n">>
S_account == <<"a","c","c","o","u","n","t">>
S_id == <<"i","d">>
S_identifier == <<"i","d","e","n","t","i","f","i","e","r">>
S_totp == <<"t","o","t","p">>
S_mfa == <<"m","f","a">>
S_otp == <<"o","t","p">>
S_code == <<"c","o","d","e">>
S_token == <<"t","o","k","e","n">>
S_verification == <<"v","e","r","i","f","i","c","a","t","i","o","n">>
S_verify == <<"v","e","r","i","f","y">>
S_authenticator == <<"a","u","t","h","e","n","t","i","c","a","t","o","r">>
S_auth == <<"a","u","t","h">>
S_2fa == <<"2","f","a">>
S_twofactor == <<"t","w","o","f","a","c","t","o","r">>
S_security == <<"s","e","c","u","r","i","t","y">>
S_sms == <<"s","m","s">>
S_multifactor == <<"m","u","l","t","i","f","a","c","t","o","r">>
S_one_time_code == <<"o","n","e","-","t","i","m","e","-","c","o","d","e">>
S_numeric == <<"n","u","m","e","r","i","c">>
S_totp_code == <<"t","o","t","p","_","c","o","d","e">>
S_USER == <<"U","S","E","R">>
S_OTP == <<"O","T","P">>
S_pin == <<"p","i","n">>

(***************************************************************************)
(* Field classification.                                                   *)
(***************************************************************************)
usernamePatterns ==
  {S_user, S_username, S_email, S_login, S_account, S_id, S_identifier}

\* the pattern list of the number/tel branch
mfaPatternsNumeric ==
  {S_totp, S_mfa, S_otp, S_code, S_token, S_verification, S_verify,
   S_authenticator, S_auth, S_2fa, S_twofactor, S_security, S_sms,
   S_multifactor}

\* the pattern list of the text branch (no 'sms')
mfaPatternsText ==
  {S_totp, S_mfa, S_otp, S_code, S_token, S_verification, S_verify,
   S_authenticator, S_auth, S_2fa, S_twofactor, S_security, S_multifactor}

isUsernameField(input) ==
  LET type == ToLowerCase(input.type)
      name == ToLowerCase(input.name)
      id == ToLowerCase(input.id)
      placeholder == ToLowerCase(input.placeholder)
  IN  \/ type = S_email
      \/ \E pattern \in usernamePatterns :
            \/ Includes(name, pattern)
            \/ Includes(id, pattern)
            \/ Includes(placeholder, pattern)

isPasswordField(input) == ToLowerCase(input.type) = S_password

isMFAField(input) ==
  LET type == ToLowerCase(input.type)
      name == ToLowerCase(input.name)
      id == ToLowerCase(input.id)
      placeholder == ToLowerCase(input.placeholder)
      className == ToLowerCase(input.className)
      hasPattern(patterns) ==
        \E pattern \in patterns :
           \/ Includes(name, pattern)
           \/ Includes(id, pattern)
           \/ Includes(placeholder, pattern)
           \/ Includes(className, pattern)
  IN  \/ /\ type \in {S_number, S_tel}
         /\ hasPattern(mfaPatternsNumeric)
      \/ /\ type = S_text
         /\ \/ hasPattern(mfaPatternsText)
            \/ (input.maxLength >= MaxLengthLow /\ input.maxLength <= MaxLengthHigh)
            \/ ToLowerCase(input.autocomplete) = S_one_time_code
            \/ ToLowerCase(input.inputMode) = S_numeric

\* the chain with the username test first
Classify_UsernameFirst(input) ==
  IF isUsernameField(input) THEN "Username"
  ELSE IF isPasswordField(input) THEN "Password"
  ELSE IF isMFAField(input) THEN "MFACode"
  ELSE "Unclassified"

\* the if / else-if chain of the scan: the role a field is registered with
Classify(input) ==
  IF isPasswordField(input) THEN "Password"
  ELSE IF isUsernameField(input) THEN "Username"
  ELSE IF isMFAField(input) THEN "MFACode"
  ELSE "Unclassified"

Descriptor(t, n, i, p, c, m, a, im) ==
  [type |-> t, name |-> n, id |-> i, placeholder |-> p, className |-> c,
   maxLength |-> m, autocomplete |-> a, inputMode |-> im]

\* the field descriptors the classifier is checked on
Descriptors ==
  { Descriptor(t, n, i, p, c, m, a, im) :
      t \in {S_password, S_email, S_text, S_number, S_tel, S_checkbox},
      n \in {S_empty, S_username, S_totp_code, S_sms, S_USER, S_pin},
      i \in {S_empty, S_login},
      p \in {S_empty, S_code},
      c \in {S_empty, S_OTP},
      m \in {-1, 6},
      a \in {S_empty, S_one_time_code},
      im \in {S_empty, S_numeric} }

(***************************************************************************)
(* The page: two forms, their inputs and one button, in document order.    *)
(* formA is the login form; mfaA is a one-time-code field of formA; formB  *)
(* is a second-step form holding only the one-time-code field mfaB.        *)
(***************************************************************************)
Forms == <<"formA", "formB">>
Inputs == <<"userA", "passA", "mfaA", "mfaB">>
Buttons == <<"btnA">>
Elements == {"formA", "formB", "userA", "passA", "mfaA", "mfaB", "btnA"}

FormOf(e) == IF e = "mfaB" THEN "formB" ELSE "formA"

InputDesc(e) ==
  CASE e = "userA" ->
         Descriptor(S_email, S_email, S_empty, S_empty, S_empty, -1, S_empty, S_empty)
    [] e = "passA" ->
         Descriptor(S_password, S_password, S_empty, S_empty, S_empty, -1, S_empty, S_empty)
    [] e = "mfaA" ->
         Descriptor(S_number, S_totp_code, S_empty, S_empty, S_empty, 6, S_empty, S_empty)
    [] e = "mfaB" ->
         Descriptor(S_text, S_empty, S_empty, S_empty, S_empty, -1, S_one_time_code, S_empty)

Usernames == {"alice", "bob"}
Passwords == {"pw"}
\* the values a user types into an input
TypedValues(e) ==
  CASE e = "userA" -> scope.users
    [] e = "passA" -> IF "passwords" \in DOMAIN scope THEN scope.passwords
                      ELSE Passwords
    [] OTHER -> {}

\* the documents the page may start with: the login form without and with
\* a one-time-code field
LoginPage == {"formA", "userA", "passA", "btnA"}
LoginPageWithMFA == {"formA", "userA", "passA", "mfaA", "btnA"}

\* the node sets the page may insert in one mutation; {} is an insertion of
\* nodes that are neither forms, inputs nor buttons
OtherNodes == {}
SecondStep == {"formB", "mfaB"}

\* a login form that renders its fields after the document has loaded, and
\* a one-time-code field that appears in the login form
BareForm == {"formA", "btnA"}
LateFields == {"userA", "passA"}
LateMFA == {"mfaA"}

Insertable(d) ==
  { S \in scope.inserts :
      /\ S \cap d = {}
      /\ \A e \in S \cap {"userA", "passA", "mfaA", "mfaB"} : FormOf(e) \in d \cup S }

NULL == [null |-> TRUE]
Undefined == "undefined"
EmptyFormData == [username |-> "", password |-> ""]

Truthy(v) == v # ""

\* getDomain(window.location.href): protocol, host and port; a location
\* change inside one document keeps them
Href(u) == [origin |-> "https://site:443", path |-> u]
getDomain(href) == href.origin

Range(seq) == {seq[i] : i \in 1..Len(seq)}

(***************************************************************************)
(* Outcome detector.                                                       *)
(***************************************************************************)
\* isLoginFailure(): an element matching an error selector holds an error
\* text, or a password/email/text input is flagged invalid
isLoginFailure == failureShown

\* isLoginSuccess(initialUrl): a success marker or a logged-in indicator is
\* in the document; the argument is not read
isLoginSuccess(initialUrl) == successShown

\* the state monitorLoginResult sets up: startTime (elapsed 0), initialUrl
\* and the first checkResult armed after the initial delay; aid only
\* identifies the attempt
monitorLoginResult(aid, domain, username, password, hasMFA, mfaType) ==
  [aid |-> aid, domain |-> domain, username |-> username,
   password |-> password, hasMFA |-> hasMFA, mfaType |-> mfaType,
   elapsed |-> 0, initialUrl |-> Href(url), wait |-> InitialDelay]

\* a message put together from the capture buffer at the time of sending
LoginDetected_ReadsBuffer(m) ==
  [type |-> "LOGIN_DETECTED", aid |-> m.aid,
   domain |-> m.domain, username |-> formData.username,
   password |-> formData.password,
   hasMFA |-> m.hasMFA, mfaType |-> m.mfaType]

\* the message sendLoginDataImmediate hands to chrome.runtime.sendMessage
LoginDetected(m) ==
  [type |-> "LOGIN_DETECTED", aid |-> m.aid,
   domain |-> m.domain, username |-> m.username, password |-> m.password,
   hasMFA |-> m.hasMFA, mfaType |-> m.mfaType]

\* checkResult with the failure check left out
checkResultOutcome_NoFailureCheck(m) ==
  IF isLoginSuccess(m.initialUrl) \/ Href(url) # m.initialUrl THEN "emit"
  ELSE IF m.elapsed < LOGIN_SUCCESS_WAIT_TIME THEN "poll"
  ELSE "emit"

\* checkResult that waits for the ceiling whatever the page shows
checkResultOutcome_NoSuccessCheck(m) ==
  IF isLoginFailure THEN "discard"
  ELSE IF m.elapsed < LOGIN_SUCCESS_WAIT_TIME THEN "poll"
  ELSE "emit"

\* checkResult that gives up at the ceiling
checkResultOutcome_PessimisticTimeout(m) ==
  IF isLoginFailure THEN "discard"
  ELSE IF isLoginSuccess(m.initialUrl) \/ Href(url) # m.initialUrl THEN "emit"
  ELSE IF m.elapsed < LOGIN_SUCCESS_WAIT_TIME THEN "poll"
  ELSE "discard"

\* checkResult that polls once more at the ceiling
checkResultOutcome_OffByOne(m) ==
  IF isLoginFailure THEN "discard"
  ELSE IF isLoginSuccess(m.initialUrl) \/ Href(url) # m.initialUrl THEN "emit"
  ELSE IF m.elapsed <= LOGIN_SUCCESS_WAIT_TIME THEN "poll"
  ELSE "emit"

\* checkResult that looks for success before it looks for failure
checkResultOutcome_SuccessFirst(m) ==
  IF isLoginSuccess(m.initialUrl) \/ Href(url) # m.initialUrl THEN "emit"
  ELSE IF isLoginFailure THEN "discard"
  ELSE IF m.elapsed < LOGIN_SUCCESS_WAIT_TIME THEN "poll"
  ELSE "emit"

\* what one run of checkResult decides
checkResultOutcome(m) ==
  IF isLoginFailure THEN "discard"
  ELSE IF isLoginSuccess(m.initialUrl) \/ Href(url) # m.initialUrl THEN "emit"
  ELSE IF m.elapsed < LOGIN_SUCCESS_WAIT_TIME THEN "poll"
  ELSE "emit"

checkResult(m) ==
  /\ pc = "ready"
  /\ m \in monitors
  /\ m.wait = 0
  /\ LET outcome == checkResultOutcome(m)
     IN  /\ monitors' = IF outcome = "poll"
                        THEN (monitors \ {m}) \cup {[m EXCEPT !.wait = PollInterval]}
                        ELSE monitors \ {m}
         /\ messages' = IF outcome = "emit"
                        THEN Append(messages, LoginDetected(m))
                        ELSE messages
         /\ formData' = IF outcome = "emit" THEN EmptyFormData ELSE formData
         /\ history' =
              LET both == isLoginFailure /\
                          (isLoginSuccess(m.initialUrl) \/ Href(url) # m.initialUrl)
                  seen == IF both
                          THEN [history EXCEPT !.conflict = @ \cup {m.aid}]
                          ELSE history
              IN  IF outcome = "discard"
                  THEN [seen EXCEPT !.discarded = @ \cup {m.aid}]
                  ELSE IF outcome = "emit" /\ m.elapsed < LOGIN_SUCCESS_WAIT_TIME
                  THEN [seen EXCEPT !.early = @ \cup {m.aid}]
                  ELSE seen
  /\ UNCHANGED <<pc, dom, value, url, failureShown, successShown,
                 passwordFields, usernameFields, mfaFields, hasMFADetected,
                 detectedMFAType, monitoredElements, listeners, lastSentLogin,
                 pendingLoginData, timers, nextId, scope, fd, cls>>
  /\ UNCHANGED <<coordVars, backVars>>

(***************************************************************************)
(* Debounce, MFA wait and supersession.                                    *)
(***************************************************************************)
\* currentTime - lastSentLogin.timestamp is lastSentLogin.age
IsDuplicate(domain, username) ==
  /\ lastSentLogin # NULL
  /\ lastSentLogin.domain = domain
  /\ lastSentLogin.username = username
  /\ lastSentLogin.age < DEBOUNCE_TIME

HasPendingTimer == pendingLoginData # NULL /\ pendingLoginData.timeoutId # 0

\* clearTimeout(id)
clearTimeout(id) == {t \in timers : t.timeoutId # id}

\* a new login that leaves the pending timer armed
CancelPending_Forgotten == timers

\* the armed timers after "cancel any existing pending login"
CancelPending ==
  IF HasPendingTimer THEN clearTimeout(pendingLoginData.timeoutId) ELSE timers

\* a scan that leaves the pending timer armed
CancelOnMFA_Forgotten == timers

\* the armed timers after the scan found an MFA field while a login is pending
CancelOnMFA == clearTimeout(pendingLoginData.timeoutId)

\* a trigger that always waits for a second factor
SkipMFAWait_Never == FALSE

\* "if MFA is already detected on current page"
SkipMFAWait == hasMFADetected

\* observation only: attempt nextId was triggered now for (domain, username);
\* near pairs it with every earlier attempt of the same (domain, username)
\* triggered less than DEBOUNCE_TIME ago
Triggered(h, domain, username, password) ==
  [h EXCEPT
     !.trig = Append(@, [domain |-> domain, username |-> username,
                         password |-> password, age |-> 0]),
     !.near = @ \cup {<<a, nextId>> : a \in
                        {a \in 1..Len(h.trig) :
                           /\ h.trig[a].domain = domain
                           /\ h.trig[a].username = username
                           /\ h.trig[a].age < DEBOUNCE_TIME}}]

sendLoginData(data) ==
  LET domain == getDomain(Href(url))
      username == data.username
      password == data.password
  IN  IF IsDuplicate(domain, username)
      THEN UNCHANGED <<lastSentLogin, pendingLoginData, timers, monitors,
                       nextId, history>>
      ELSE IF SkipMFAWait
      THEN /\ monitors' = monitors \cup
                {monitorLoginResult(nextId, domain, username, password,
                                    TRUE, detectedMFAType)}
           /\ lastSentLogin' = [domain |-> domain, username |-> username,
                                age |-> 0]
           /\ nextId' = nextId + 1
           /\ history' = [Triggered(history, domain, username, password) EXCEPT
                            !.invoked = Append(@, nextId)]
           /\ UNCHANGED <<pendingLoginData, timers>>
      ELSE /\ timers' = CancelPending \cup
                {[timeoutId |-> nextId, remaining |-> MFA_WAIT_TIME,
                  domain |-> domain, username |-> username,
                  password |-> password, age |-> 0]}
           /\ pendingLoginData' =
                [domain |-> domain, username |-> username,
                 password |-> password, age |-> 0, timeoutId |-> nextId]
           /\ nextId' = nextId + 1
           /\ history' =
                IF HasPendingTimer
                THEN [Triggered(history, domain, username, password) EXCEPT
                        !.cleared = @ \cup {pendingLoginData.timeoutId},
                        !.superseded = @ \cup {pendingLoginData.timeoutId}]
                ELSE Triggered(history, domain, username, password)
           /\ UNCHANGED <<lastSentLogin, monitors>>

\* a timer callback that leaves the pending login in place
mfaWaitExpired_KeepsPending(t) ==
  /\ pc = "ready"
  /\ t \in timers
  /\ t.remaining = 0
  /\ LET finalHasMFA == hasMFADetected
         finalMFAType == IF finalHasMFA THEN detectedMFAType ELSE Undefined
     IN  monitors' = monitors \cup
            {monitorLoginResult(t.timeoutId, t.domain, t.username,
                                t.password, finalHasMFA, finalMFAType)}
  /\ lastSentLogin' = [domain |-> t.domain, username |-> t.username,
                       age |-> t.age]
  /\ pendingLoginData' = pendingLoginData
  /\ timers' = timers \ {t}
  /\ history' = [history EXCEPT !.invoked = Append(@, t.timeoutId),
                                !.expired = @ \cup {t.timeoutId}]
  /\ UNCHANGED <<pc, dom, value, url, failureShown, successShown,
                 formData, passwordFields, usernameFields, mfaFields,
                 hasMFADetected, detectedMFAType, monitoredElements,
                 listeners, messages, nextId, scope, fd, cls>>
  /\ UNCHANGED <<coordVars, backVars>>

\* a timer callback that passes the detected type whatever the flag says
mfaWaitExpired_PassesDetectedType(t) ==
  /\ pc = "ready"
  /\ t \in timers
  /\ t.remaining = 0
  /\ LET finalHasMFA == hasMFADetected
         finalMFAType == detectedMFAType
     IN  monitors' = monitors \cup
            {monitorLoginResult(t.timeoutId, t.domain, t.username,
                                t.password, finalHasMFA, finalMFAType)}
  /\ lastSentLogin' = [domain |-> t.domain, username |-> t.username,
                       age |-> t.age]
  /\ pendingLoginData' = NULL
  /\ timers' = timers \ {t}
  /\ history' = [history EXCEPT !.invoked = Append(@, t.timeoutId),
                                !.expired = @ \cup {t.timeoutId}]
  /\ UNCHANGED <<pc, dom, value, url, failureShown, successShown,
                 formData, passwordFields, usernameFields, mfaFields,
                 hasMFADetected, detectedMFAType, monitoredElements,
                 listeners, messages, nextId, scope, fd, cls>>
  /\ UNCHANGED <<coordVars, backVars>>

\* a timer callback that stamps the record with the time of the expiry
mfaWaitExpired_StampsNow(t) ==
  /\ pc = "ready"
  /\ t \in timers
  /\ t.remaining = 0
  /\ LET finalHasMFA == hasMFADetected
         finalMFAType == IF finalHasMFA THEN detectedMFAType ELSE Undefined
     IN  monitors' = monitors \cup
            {monitorLoginResult(t.timeoutId, t.domain, t.username,
                                t.password, finalHasMFA, finalMFAType)}
  /\ lastSentLogin' = [domain |-> t.domain, username |-> t.username,
                       age |-> 0]
  /\ pendingLoginData' = NULL
  /\ timers' = timers \ {t}
  /\ history' = [history EXCEPT !.invoked = Append(@, t.timeoutId),
                                !.expired = @ \cup {t.timeoutId}]
  /\ UNCHANGED <<pc, dom, value, url, failureShown, successShown,
                 formData, passwordFields, usernameFields, mfaFields,
                 hasMFADetected, detectedMFAType, monitoredElements,
                 listeners, messages, nextId, scope, fd, cls>>
  /\ UNCHANGED <<coordVars, backVars>>

\* the callback of the MFA-wait timer
mfaWaitExpired(t) ==
  /\ pc = "ready"
  /\ t \in timers
  /\ t.remaining = 0
  /\ LET finalHasMFA == hasMFADetected
         finalMFAType == IF finalHasMFA THEN detectedMFAType ELSE Undefined
     IN  monitors' = monitors \cup
            {monitorLoginResult(t.timeoutId, t.domain, t.username,
                                t.password, finalHasMFA, finalMFAType)}
  /\ lastSentLogin' = [domain |-> t.domain, username |-> t.username,
                       age |-> t.age]
  /\ pendingLoginData' = NULL
  /\ timers' = timers \ {t}
  /\ history' = [history EXCEPT !.invoked = Append(@, t.timeoutId),
                                !.expired = @ \cup {t.timeoutId}]
  /\ UNCHANGED <<pc, dom, value, url, failureShown, successShown,
                 formData, passwordFields, usernameFields, mfaFields,
                 hasMFADetected, detectedMFAType, monitoredElements,
                 listeners, messages, nextId, scope, fd, cls>>
  /\ UNCHANGED <<coordVars, backVars>>

(***************************************************************************)
(* Observer: the scan.                                                     *)
(***************************************************************************)
\* a scan that visits every input of every form, registered or not
ScanInputs_All(d) ==
  SelectSeq(Inputs, LAMBDA e : e \in d /\ FormOf(e) \in d)

\* the inputs a scan of document d visits, in document order: inputs of
\* forms not yet monitored that are not monitored themselves
ScanInputs(d) ==
  SelectSeq(Inputs, LAMBDA e : /\ e \in d
                               /\ FormOf(e) \in d
                               /\ FormOf(e) \notin monitoredElements
                               /\ e \notin monitoredElements)

WithRole(seq, role) ==
  SelectSeq(seq, LAMBDA e : Classify(InputDesc(e)) = role)

findAndMonitorForms(d) ==
  LET visited == ScanInputs(d)
      pw == WithRole(visited, "Password")
      un == WithRole(visited, "Username")
      mf == WithRole(visited, "MFACode")
      newForms == {f \in Range(Forms) : f \in d /\ f \notin monitoredElements}
      newButtons == {b \in Range(Buttons) : b \in d /\ b \notin monitoredElements}
      registered == Range(pw) \cup Range(un) \cup Range(mf)
                      \cup newForms \cup newButtons
      \* the first MFA field found while a login is pending
      fastPath == mf # <<>> /\ HasPendingTimer
  IN  /\ formData' = EmptyFormData
      /\ passwordFields' = pw
      /\ usernameFields' = un
      /\ mfaFields' = mf
      /\ hasMFADetected' = (mf # <<>>)
      /\ detectedMFAType' = IF mf # <<>> THEN "TOTP" ELSE ""
      /\ monitoredElements' = monitoredElements \cup registered
      /\ listeners' = [e \in Elements |->
                         IF e \in registered THEN listeners[e] + 1
                         ELSE listeners[e]]
      /\ IF fastPath
         THEN /\ timers' = CancelOnMFA
              /\ monitors' = monitors \cup
                   {monitorLoginResult(pendingLoginData.timeoutId,
                                       pendingLoginData.domain,
                                       pendingLoginData.username,
                                       pendingLoginData.password,
                                       TRUE, "TOTP")}
              /\ lastSentLogin' = [domain |-> pendingLoginData.domain,
                                   username |-> pendingLoginData.username,
                                   age |-> pendingLoginData.age]
              /\ pendingLoginData' = NULL
              /\ history' = [history EXCEPT
                               !.invoked = Append(@, pendingLoginData.timeoutId),
                               !.cleared = @ \cup {pendingLoginData.timeoutId}]
         ELSE UNCHANGED <<timers, monitors, lastSentLogin, pendingLoginData,
                          history>>

\* initialize(): the initial scan, then observeDOMChanges()
initialize ==
  /\ pc = "loading"
  /\ pc' = "ready"
  /\ findAndMonitorForms(dom)
  /\ UNCHANGED <<dom, value, url, failureShown, successShown, messages,
                 nextId, scope, fd, cls>>
  /\ UNCHANGED <<coordVars, backVars>>

\* the page inserts nodes; the MutationObserver callback re-scans
observeDOMChanges ==
  /\ pc = "ready"
  /\ \E S \in Insertable(dom) :
        /\ dom' = dom \cup S
        /\ findAndMonitorForms(dom \cup S)
  /\ UNCHANGED <<pc, value, url, failureShown, successShown, messages,
                 nextId, scope, fd, cls>>
  /\ UNCHANGED <<coordVars, backVars>>

(***************************************************************************)
(* Capture buffer and triggers.                                            *)
(***************************************************************************)
\* the user types v into input e; the change/input listeners attached by the
\* scan copy the value into formData
userInput ==
  /\ pc = "ready"
  /\ \E e \in dom \cap Range(Inputs) : \E v \in TypedValues(e) :
        /\ v # value[e]
        /\ value' = [value EXCEPT ![e] = v]
        /\ formData' =
             IF listeners[e] = 0 THEN formData
             ELSE IF Classify(InputDesc(e)) = "Password"
                  THEN [formData EXCEPT !.password = v]
             ELSE IF Classify(InputDesc(e)) = "Username"
                  THEN [formData EXCEPT !.username = v]
             ELSE formData
  /\ UNCHANGED <<pc, dom, url, failureShown, successShown,
                 passwordFields, usernameFields, mfaFields, hasMFADetected,
                 detectedMFAType, monitoredElements, listeners, lastSentLogin,
                 pendingLoginData, timers, monitors, messages, nextId,
                 history, scope, fd, cls>>
  /\ UNCHANGED <<coordVars, backVars>>

Min(a, b) == IF a < b THEN a ELSE b

\* "try to get values directly from the fields": formData after the loop over
\* the positionally paired known fields, and whether the loop found a pair
PairByPosition(data) ==
  LET n == Min(Len(passwordFields), Len(usernameFields))
      pair(i) == [username |-> value[usernameFields[i]],
                  password |-> value[passwordFields[i]]]
      hits == {i \in 1..n : Truthy(pair(i).username) /\ Truthy(pair(i).password)}
  IN  IF n = 0 THEN [found |-> FALSE, data |-> data]
      ELSE IF hits # {}
           THEN [found |-> TRUE,
                 data |-> pair(CHOOSE i \in hits : \A j \in hits : i <= j)]
           ELSE [found |-> FALSE, data |-> pair(n)]

\* "last resort": the first password field and the first username field of
\* the whole page
LastResort(data) ==
  LET allPasswordFields ==
        SelectSeq(Inputs, LAMBDA e : e \in dom /\ isPasswordField(InputDesc(e)))
      allUsernameFields ==
        SelectSeq(Inputs, LAMBDA e : e \in dom /\ isUsernameField(InputDesc(e)))
      got == [username |-> value[allUsernameFields[1]],
              password |-> value[allPasswordFields[1]]]
  IN  IF Len(allPasswordFields) > 0 /\ Len(allUsernameFields) > 0
      THEN [found |-> Truthy(got.username) /\ Truthy(got.password), data |-> got]
      ELSE [found |-> FALSE, data |-> data]

\* a trigger that gives up the pending login when it finds no values
NoSend_DropsPending ==
  /\ pendingLoginData' = NULL
  /\ timers' = {}
  /\ UNCHANGED <<lastSentLogin, monitors, nextId, history>>

\* the handler returns without calling sendLoginData
NoSend == UNCHANGED <<lastSentLogin, pendingLoginData, timers, monitors,
                      nextId, history>>

TriggerFrame ==
  UNCHANGED <<pc, dom, value, url, failureShown, successShown,
              passwordFields, usernameFields, mfaFields, hasMFADetected,
              detectedMFAType, monitoredElements, listeners, messages, scope, fd, cls>>

handleFormSubmit ==
  /\ pc = "ready"
  /\ nextId <= scope.attempts
  /\ \E f \in dom \cap Range(Forms) : listeners[f] > 0
  /\ IF Truthy(formData.username) /\ Truthy(formData.password)
     THEN formData' = formData /\ sendLoginData(formData)
     ELSE LET paired == PairByPosition(formData)
          IN  /\ formData' = paired.data
              /\ IF paired.found THEN sendLoginData(paired.data) ELSE NoSend
  /\ TriggerFrame
  /\ UNCHANGED <<coordVars, backVars>>

buttonClickHandler ==
  /\ pc = "ready"
  /\ nextId <= scope.attempts
  /\ \E b \in dom \cap Range(Buttons) : listeners[b] > 0
  /\ IF Truthy(formData.username) /\ Truthy(formData.password)
     THEN formData' = formData /\ sendLoginData(formData)
     ELSE LET paired == PairByPosition(formData)
              last == LastResort(paired.data)
          IN  IF paired.found
              THEN formData' = paired.data /\ sendLoginData(paired.data)
              ELSE /\ formData' = last.data
                   /\ IF last.found THEN sendLoginData(last.data) ELSE NoSend
  /\ TriggerFrame
  /\ UNCHANGED <<coordVars, backVars>>

(***************************************************************************)
(* The page and the clock.                                                 *)
(***************************************************************************)
\* the page changes its location without leaving the document; only a
\* running poll loop reads the location
navigate ==
  /\ pc = "ready"
  /\ monitors # {}
  /\ url < MaxNav
  /\ url' = url + 1
  /\ UNCHANGED <<pc, dom, value, failureShown, successShown, formData,
                 passwordFields, usernameFields, mfaFields, hasMFADetected,
                 detectedMFAType, monitoredElements, listeners, lastSentLogin,
                 pendingLoginData, timers, monitors, messages, nextId,
                 history, scope, fd, cls>>
  /\ UNCHANGED <<coordVars, backVars>>

\* the page shows or hides a failure banner or a success marker; only
\* checkResult reads them, so they change when a poll is due
pageUpdate ==
  /\ pc = "ready"
  /\ \E m \in monitors : m.wait = 0
  /\ \E f \in BOOLEAN, s \in BOOLEAN :
        /\ <<f, s>> # <<failureShown, successShown>>
        /\ failureShown' = f
        /\ successShown' = s
  /\ UNCHANGED <<pc, dom, value, url, formData, passwordFields,
                 usernameFields, mfaFields, hasMFADetected, detectedMFAType,
                 monitoredElements, listeners, lastSentLogin, pendingLoginData,
                 timers, monitors, messages, nextId, history, scope, fd, cls>>
  /\ UNCHANGED <<coordVars, backVars>>

\* an age that is only compared with DEBOUNCE_TIME
Older(age) == Min(age + PollInterval, DEBOUNCE_TIME)

\* PollInterval ms pass; no armed callback is overdue
tick ==
  /\ pc = "ready"
  /\ \A t \in timers : t.remaining > 0
  /\ \A m \in monitors : m.wait > 0
  /\ timers' = {[t EXCEPT !.remaining = @ - PollInterval, !.age = Older(@)] :
                  t \in timers}
  /\ monitors' = {[m EXCEPT !.wait = @ - PollInterval,
                            !.elapsed = @ + PollInterval] : m \in monitors}
  /\ lastSentLogin' = IF lastSentLogin = NULL THEN NULL
                      ELSE [lastSentLogin EXCEPT !.age = Older(@)]
  /\ pendingLoginData' = IF pendingLoginData = NULL THEN NULL
                         ELSE [pendingLoginData EXCEPT !.age = Older(@)]
  /\ history' = [history EXCEPT
                   !.trig = [a \in 1..Len(@) |-> [@[a] EXCEPT !.age = Older(@)]]]
  /\ UNCHANGED <<pc, dom, value, url, failureShown, successShown, formData,
                 passwordFields, usernameFields, mfaFields, hasMFADetected,
                 detectedMFAType, monitoredElements, listeners, messages,
                 nextId, scope, fd, cls>>
  /\ UNCHANGED <<coordVars, backVars>>

(***************************************************************************)
(* Background script: the message listener and handleLoginDetected.        *)
(***************************************************************************)
S_https == <<"h", "t", "t", "p", "s", ":", "/", "/">>
S_localhost == <<"l", "o", "c", "a", "l", "h", "o", "s", "t">>
S_register ==
  <<"/", "a", "p", "i", "/", "l", "o", "g", "i", "n", "/", "r", "e", "g",
    "i", "s", "t", "e", "r">>

\* configured endpoints
URL_https_example ==
  <<"h", "t", "t", "p", "s", ":", "/", "/", "e", "x", "a", "m", "p", "l",
    "e", ".", "c", "o", "m">>
URL_http_example ==
  <<"h", "t", "t", "p", ":", "/", "/", "e", "x", "a", "m", "p", "l", "e",
    ".", "c", "o", "m">>
URL_http_localhost ==
  <<"h", "t", "t", "p", ":", "/", "/", "l", "o", "c", "a", "l", "h", "o",
    "s", "t", ":", "8", "0", "8", "0">>
URL_http_loopback ==
  <<"h", "t", "t", "p", ":", "/", "/", "1", "2", "7", ".", "0", ".", "0",
    ".", "1", ":", "8", "0", "8", "0">>
URL_http_localhost_in_path ==
  <<"h", "t", "t", "p", ":", "/", "/", "e", "x", "a", "m", "p", "l", "e",
    ".", "c", "o", "m", "/", "l", "o", "c", "a", "l", "h", "o", "s", "t">>
Endpoints ==
  {URL_https_example, URL_http_example, URL_http_localhost, URL_http_loopback,
   URL_http_localhost_in_path}

\* the characters of the values a user types
Text(v) ==
  CASE v = "alice" -> <<"a", "l", "i", "c", "e">>
    [] v = "bob" -> <<"b", "o", "b">>
    [] v = "pw" -> <<"p", "w">>
    [] OTHER -> <<>>

\* username filters
F_ali == <<"a", "l", "i">>
F_ALI == <<"A", "L", "I">>
F_corp == <<"c", "o", "r", "p">>
FilterLists == {<<>>, <<F_ali>>, <<F_ALI>>, <<F_corp, F_ali>>, <<F_corp>>}

\* String.startsWith
StartsWith(s, p) == Len(p) <= Len(s) /\ SubSeq(s, 1, Len(p)) = p

\* sha512(input): the lowercase hex digest
SHA512_pw ==
  <<"b", "e", "1", "9", "6", "8", "3", "8", "7", "3", "6", "d", "d", "f",
    "d", "0", "0", "0", "7", "d", "d", "8", "b", "2", "e", "8", "f", "4",
    "6", "f", "2", "2", "d", "4", "4", "0", "d", "4", "c", "5", "9", "5",
    "9", "9", "2", "5", "c", "b", "4", "9", "1", "3", "5", "a", "b", "c",
    "9", "c", "d", "b", "0", "1", "e", "8", "4", "9", "6", "1", "a", "a",
    "4", "3", "d", "d", "0", "d", "d", "b", "6", "e", "e", "5", "9", "9",
    "7", "5", "e", "b", "6", "4", "9", "2", "8", "0", "d", "9", "f", "4",
    "4", "0", "8", "8", "8", "4", "0", "a", "f", "3", "7", "4", "5", "1",
    "8", "2", "8", "a", "6", "4", "1", "2", "b", "9", "b", "5", "7", "4",
    "f", "c">>
SHA512_empty ==
  <<"c", "f", "8", "3", "e", "1", "3", "5", "7", "e", "e", "f", "b", "8",
    "b", "d", "f", "1", "5", "4", "2", "8", "5", "0", "d", "6", "6", "d",
    "8", "0", "0", "7", "d", "6", "2", "0", "e", "4", "0", "5", "0", "b",
    "5", "7", "1", "5", "d", "c", "8", "3", "f", "4", "a", "9", "2", "1",
    "d", "3", "6", "c", "e", "9", "c", "e", "4", "7", "d", "0", "d", "1",
    "3", "c", "5", "d", "8", "5", "f", "2", "b", "0", "f", "f", "8", "3",
    "1", "8", "d", "2", "8", "7", "7", "e", "e", "c", "2", "f", "6", "3",
    "b", "9", "3", "1", "b", "d", "4", "7", "4", "1", "7", "a", "8", "1",
    "a", "5", "3", "8", "3", "2", "7", "a", "f", "9", "2", "7", "d", "a",
    "3", "e">>
sha512(input) ==
  CASE input = "pw" -> SHA512_pw
    [] input = "" -> SHA512_empty

DEFAULT_CONFIG ==
  [api |-> URL_http_localhost, id |-> "", enabled |-> TRUE, token |-> "",
   locked |-> FALSE, filters |-> <<>>, deviceId |-> ""]

\* the values generateDeviceId may return
DeviceIds == {"device_a", "device_b"}

\* loadConfig(): the stored config or the defaults, the legacy deviceId moved
\* to id, and a generated id gen when there is none
Resolve(result, gen) ==
  LET stored == IF result = NULL THEN DEFAULT_CONFIG ELSE result
      migrated == IF stored.id = "" /\ stored.deviceId # ""
                  THEN [stored EXCEPT !.id = stored.deviceId, !.deviceId = ""]
                  ELSE stored
  IN  IF migrated.id = "" THEN [migrated EXCEPT !.id = gen] ELSE migrated

\* "chrome.storage.local.set({ config })" runs for this result
Generates(result) ==
  LET stored == IF result = NULL THEN DEFAULT_CONFIG ELSE result
  IN  stored.id = "" /\ stored.deviceId = ""

\* loadConfig() when the storage answers at once
loadConfig(gen) == Resolve(config, gen)

\* chrome.storage.local after loadConfig(): written only when an id was
\* generated
StorageAfterLoad(gen) ==
  IF Generates(config) THEN loadConfig(gen) ELSE config

\* the filter that matches whatever the case of the letters
PassesFilters_IgnoreCase(filters, username) ==
  Len(filters) > 0 =>
     \E i \in 1..Len(filters) :
        Includes(ToLowerCase(Text(username)), ToLowerCase(filters[i]))

\* "if (filters && filters.length > 0)": some filter is a substring of the
\* username
PassesFilters(filters, username) ==
  Len(filters) > 0 =>
     \E i \in 1..Len(filters) : Includes(Text(username), filters[i])

\* "only send the credentials when it's either localhost or a secure remote
\* endpoint"
EndpointAllowed(apiUrl) ==
  StartsWith(apiUrl, S_https) \/ Includes(apiUrl, S_localhost)

\* a request body that carries the password as typed
RegisterBody_Plaintext(loginData) ==
  [domain |-> loginData.domain, username |-> loginData.username,
   hash |-> Text(loginData.password), device_id |-> loginData.deviceId,
   captured_time |-> loginData.capturedTime]

\* the JSON body handed to sendToBackend
RegisterBody(loginData) ==
  [domain |-> loginData.domain, username |-> loginData.username,
   hash |-> sha512(loginData.password), device_id |-> loginData.deviceId,
   captured_time |-> loginData.capturedTime]

\* the headers of the fetch call: Authorization only when a token is
\* configured; the pair stands for the text `Bearer ${token}`
NoHeaders == [name \in {} |-> <<>>]
RequestHeaders(token) ==
  IF token = "" THEN NoHeaders ELSE [Authorization |-> <<"Bearer ", token>>]

\* sendToBackend(endpoint, data, apiUrl): the fetch call
sendToBackend(endpoint, body, apiUrl, token) ==
  [url |-> apiUrl \o endpoint, method |-> "POST", token |-> token,
   body |-> body]

\* handleLoginDetected: the fetch calls it makes
handleLoginDetected(partialLoginData, apiUrl, deviceId, filters, token) ==
  LET loginData == [domain |-> partialLoginData.domain,
                    username |-> partialLoginData.username,
                    password |-> partialLoginData.password,
                    deviceId |-> deviceId,
                    capturedTime |-> "now"]
  IN  IF ~PassesFilters(filters, loginData.username) THEN <<>>
      ELSE IF ~EndpointAllowed(apiUrl) THEN <<>>
      ELSE <<sendToBackend(S_register, RegisterBody(loginData), apiUrl, token)>>

\* a listener that handles messages whatever the configuration
IsEnabled_Always(cfg) == TRUE

\* "skip processing if extension is disabled"
IsEnabled(cfg) == cfg.enabled

\* case GET_DEVICE_ID
DeviceIdReply(cfg) == [deviceId |-> cfg.id]

\* the listener of chrome.runtime.onMessage: the value given to sendResponse
Response(message, cfg) ==
  IF ~IsEnabled(cfg)
  THEN [success |-> FALSE, error |-> "Extension is disabled"]
  ELSE CASE message.type = "LOGIN_DETECTED" -> [success |-> TRUE]
         [] message.type = "GET_DEVICE_ID" -> DeviceIdReply(cfg)
         [] OTHER -> [success |-> FALSE, error |-> "Unknown message type"]

\* the listener with the configuration loadConfig has returned
Listener(message, cfg, stored, count) ==
  background' =
    [config |-> stored,
     delivered |-> count,
     lastReply |-> [type |-> message.type, reply |-> Response(message, cfg)],
     calls |-> calls,
     returned |-> returned,
     requests |->
       IF IsEnabled(cfg) /\ message.type = "LOGIN_DETECTED"
       THEN requests \o handleLoginDetected(message, cfg.api, cfg.id,
                                            cfg.filters, cfg.token)
       ELSE requests]

\* the listener handles message; count is the number of messages of the
\* content script handled after it
onMessage(message, count) ==
  \E gen \in DeviceIds :
     Listener(message, loadConfig(gen), StorageAfterLoad(gen), count)

\* the next LOGIN_DETECTED message of the content script reaches the listener
deliverLoginDetected ==
  /\ delivered < Len(messages)
  /\ onMessage(messages[delivered + 1], delivered + 1)
  /\ UNCHANGED <<pageVars, backVars>>

\* an extension page asks for the device id
deliverGetDeviceId ==
  /\ onMessage([type |-> "GET_DEVICE_ID"], delivered)
  /\ UNCHANGED <<pageVars, backVars>>

\* an extension page sends a message of another type
deliverUnknown ==
  /\ onMessage([type |-> "PING"], delivered)
  /\ UNCHANGED <<pageVars, backVars>>

\* the callers of loadConfig: initialize() of the background script, its
\* message listener handling the messages of two pages, sendToBackend, and
\* the popup page
Callers == {"initialize", "listener_1", "listener_2", "sendToBackend", "popup"}

\* "await loadConfig()" of initialize comes before addListener, and
\* sendToBackend is called by the listener
MayCall(p) ==
  p \notin {"initialize", "popup"} => calls["initialize"].pc = "resolved"

\* caller p calls loadConfig: chrome.storage.local.get('config', callback)
\* reads the storage; the callback runs later with what was read
storageGet(p) ==
  /\ calls[p].pc = "idle"
  /\ MayCall(p)
  /\ background' = [background EXCEPT !.calls[p] = [pc |-> "reading", result |-> config]]
  /\ UNCHANGED <<pageVars, backVars>>

\* the callback of the get of caller p: migrate, generate and set when the
\* result has no id, resolve
loadConfigCallback(p) ==
  /\ calls[p].pc = "reading"
  /\ \E gen \in DeviceIds :
        background' =
          [background EXCEPT
             !.config = IF Generates(calls[p].result)
                        THEN Resolve(calls[p].result, gen) ELSE config,
             !.returned = @ \cup {Resolve(calls[p].result, gen).id},
             !.calls[p] = [pc |-> IF p = "initialize" THEN "resolved"
                                  ELSE "idle",
                           result |-> NULL]]
  /\ UNCHANGED <<pageVars, backVars>>

(***************************************************************************)
(* Backend: the HIBP client, its cache and the register endpoint.          *)
(***************************************************************************)
UpperChar(c) ==
  CASE c = "a" -> "A"
    [] c = "b" -> "B"
    [] c = "c" -> "C"
    [] c = "d" -> "D"
    [] c = "e" -> "E"
    [] c = "f" -> "F"
    [] c = "g" -> "G"
    [] c = "h" -> "H"
    [] c = "i" -> "I"
    [] c = "j" -> "J"
    [] c = "k" -> "K"
    [] c = "l" -> "L"
    [] c = "m" -> "M"
    [] c = "n" -> "N"
    [] c = "o" -> "O"
    [] c = "p" -> "P"
    [] c = "q" -> "Q"
    [] c = "r" -> "R"
    [] c = "s" -> "S"
    [] c = "t" -> "T"
    [] c = "u" -> "U"
    [] c = "v" -> "V"
    [] c = "w" -> "W"
    [] c = "x" -> "X"
    [] c = "y" -> "Y"
    [] c = "z" -> "Z"
    [] OTHER -> c

\* strings.ToUpper
ToUpper(s) == [i \in 1..Len(s) |-> UpperChar(s[i])]

\* strings.EqualFold
EqualFold(a, b) == ToLowerCase(a) = ToLowerCase(b)

\* password hashes a register request may carry: a SHA-1 in upper and in
\* lower case, a string shorter than a hash prefix, and the SHA-512 the
\* extension sends
H_sha1 ==
  <<"5", "B", "A", "A", "6", "1", "E", "4", "C", "9", "B", "9", "3", "F",
    "3", "F", "0", "6", "8", "2", "2", "5", "0", "B", "6", "C", "F", "8",
    "3", "3", "1", "B", "7", "E", "E", "6", "8", "F", "D", "8">>
H_sha1_lower ==
  <<"5", "b", "a", "a", "6", "1", "e", "4", "c", "9", "b", "9", "3", "f",
    "3", "f", "0", "6", "8", "2", "2", "5", "0", "b", "6", "c", "f", "8",
    "3", "3", "1", "b", "7", "e", "e", "6", "8", "f", "d", "8">>
H_short == <<"a", "b", "c">>

\* bodies the range API may answer with
Body_found ==
  <<"E", "6", "8", "D", "A", "8", "F", "3", "8", "1", "5", "1", "F", "F",
    "8", "6", "A", "6", "1", "F", "C", "5", "9", "F", "7", "C", "5", "C",
    "F", "9", "F", "C", "A", "A", "2", ":", "7", "\r", "\n", "1", "e", "4",
    "c", "9", "b", "9", "3", "f", "3", "f", "0", "6", "8", "2", "2", "5",
    "0", "b", "6", "c", "f", "8", "3", "3", "1", "b", "7", "e", "e", "6",
    "8", "f", "d", "8", ":", "3", "\r", "\n">>
Body_zero ==
  <<"1", "E", "4", "C", "9", "B", "9", "3", "F", "3", "F", "0", "6", "8",
    "2", "2", "5", "0", "B", "6", "C", "F", "8", "3", "3", "1", "B", "7",
    "E", "E", "6", "8", "F", "D", "8", ":", "0", "\r", "\n", "E", "6", "8",
    "D", "A", "8", "F", "3", "8", "1", "5", "1", "F", "F", "8", "6", "A",
    "6", "1", "F", "C", "5", "9", "F", "7", "C", "5", "C", "F", "9", "F",
    "C", "A", "A", "2", ":", "7">>
Body_notfound ==
  <<"E", "6", "8", "D", "A", "8", "F", "3", "8", "1", "5", "1", "F", "F",
    "8", "6", "A", "6", "1", "F", "C", "5", "9", "F", "7", "C", "5", "C",
    "F", "9", "F", "C", "A", "A", "2", ":", "7", "\r", "\n">>
Body_badcount ==
  <<"1", "E", "4", "C", "9", "B", "9", "3", "F", "3", "F", "0", "6", "8",
    "2", "2", "5", "0", "B", "6", "C", "F", "8", "3", "3", "1", "B", "7",
    "E", "E", "6", "8", "F", "D", "8", ":", "m", "a", "n", "y">>

\* what the HTTP exchange with the range API may come to
NetAnswers ==
  {[kind |-> "requestFailed"], [kind |-> "status", code |-> 503],
   [kind |-> "bodyUnreadable"]}
    \cup {[kind |-> "ok", body |-> b] :
            b \in {Body_found, Body_zero, Body_notfound, Body_badcount}}

HashLength == 40          \* "expected 40 characters"
PrefixLength == 5         \* hashStr[:5]
TTL == 60                 \* time.Hour, in minutes
SweepInterval == 30       \* 30 * time.Minute, in minutes

\* the clock of the model moves in steps of half a sweep interval
ClockStep == SweepInterval \div 2

\* the pieces of s between one position of cuts and the next
Pieces(s, cuts, n) ==
  [k \in 1..(n + 1) |->
     SubSeq(s,
            IF k = 1 THEN 1
            ELSE 1 + (CHOOSE i \in cuts : Cardinality({j \in cuts : j < i}) = k - 2),
            IF k = n + 1 THEN Len(s)
            ELSE (CHOOSE i \in cuts : Cardinality({j \in cuts : j < i}) = k - 1) - 1)]

\* the positions of s that hold sep
Positions(s, sep) == {i \in 1..Len(s) : s[i] = sep}

\* strings.Split(s, sep) for a separator of one character
SplitAt(s, cuts) == Pieces(s, cuts, Cardinality(cuts))
Split(s, sep) == SplitAt(s, Positions(s, sep))

IsSpace(c) == c \in {" ", "\t", "\n", "\r"}

\* strings.TrimSpace: from the first character that is no space to the last
Kept(s, keep) ==
  IF keep = {} THEN <<>>
  ELSE SubSeq(s, CHOOSE i \in keep : \A j \in keep : i <= j,
                 CHOOSE i \in keep : \A j \in keep : j <= i)

TrimSpace(s) == Kept(s, {i \in 1..Len(s) : ~IsSpace(s[i])})

Digits == <<"0", "1", "2", "3", "4", "5", "6", "7", "8", "9">>
IsDigit(c) == \E d \in 1..Len(Digits) : Digits[d] = c
DigitValue(c) == (CHOOSE d \in 1..Len(Digits) : Digits[d] = c) - 1

RECURSIVE DecimalValue(_, _)
DecimalValue(s, acc) ==
  IF s = <<>> THEN acc
  ELSE DecimalValue(Tail(s), acc * 10 + DigitValue(Head(s)))

\* strconv.Atoi for an unsigned decimal
Atoi(s) ==
  IF s # <<>> /\ \A i \in 1..Len(s) : IsDigit(s[i])
  THEN [err |-> FALSE, count |-> DecimalValue(s, 0)]
  ELSE [err |-> TRUE, count |-> 0]

\* the loop over the lines of the body: the first line whose first part is
\* the suffix decides
RECURSIVE ScanLines(_, _)
ScanParts(parts, rest, suffix) ==
  IF Len(parts) # 2 THEN ScanLines(rest, suffix)
  ELSE IF EqualFold(parts[1], suffix) THEN Atoi(parts[2])
  ELSE ScanLines(rest, suffix)

ScanLine(line, rest, suffix) ==
  IF line = <<>> THEN ScanLines(rest, suffix)
  ELSE ScanParts(Split(line, ":"), rest, suffix)

ScanLines(lines, suffix) ==
  IF lines = <<>> THEN [err |-> FALSE, count |-> 0]
  ELSE ScanLine(TrimSpace(Head(lines)), Tail(lines), suffix)

\* the client after the exchange: an error unless the answer is a 200 whose
\* body was read, then what the scan of the body finds
ClientResult(answer, suffix) ==
  IF answer.kind # "ok" THEN [err |-> TRUE, count |-> 0]
  ELSE ScanLines(Split(answer.body, "\n"), suffix)

\* a result of the client with the number of requests it has made
Requested(res, n) == [err |-> res.err, count |-> res.count, network |-> n]

\* Client.CheckPasswordHash(hashStr) when the HTTP exchange comes to answer
ClientCheckPasswordHash(hashStr, answer) ==
  IF Len(hashStr) # HashLength
  THEN [err |-> TRUE, count |-> 0, network |-> 0]
  ELSE Requested(ClientResult(answer, SubSeq(ToUpper(hashStr),
                                             PrefixLength + 1, Len(hashStr))),
                 1)

\* a Go map is a function on the keys it holds; m[key] = v
Put(m, key, v) ==
  [k \in DOMAIN m \cup {key} |-> IF k = key THEN v ELSE m[k]]

\* Cache.Get: found, or not found, or the panic of passwordHash[:5]
CacheGet(passwordHash) ==
  IF passwordHash \notin DOMAIN entries
  THEN [found |-> FALSE, panic |-> FALSE, count |-> 0]
  ELSE IF Len(passwordHash) < PrefixLength
  THEN [found |-> FALSE, panic |-> TRUE, count |-> 0]
  ELSE IF entries[passwordHash].age > TTL
  THEN [found |-> FALSE, panic |-> FALSE, count |-> 0]
  ELSE [found |-> TRUE, panic |-> FALSE,
        count |-> entries[passwordHash].BreachCount]

\* a cache that keeps no "not found" results
CacheSet_SkipZero(passwordHash, breachCount) ==
  IF breachCount = 0 THEN entries
  ELSE Put(entries, passwordHash, [BreachCount |-> breachCount, age |-> 0])

\* Cache.Set
CacheSet(passwordHash, breachCount) ==
  Put(entries, passwordHash, [BreachCount |-> breachCount, age |-> 0])

\* Service.CheckPasswordHash after the cache has missed: the panic of
\* passwordHash[:5], the error of the client, or the count, which is cached
ServiceMiss(passwordHash, res) ==
  IF Len(passwordHash) < PrefixLength
  THEN [outcome |-> "panic", count |-> 0, cache |-> entries, network |-> 0]
  ELSE IF res.err
  THEN [outcome |-> "error", count |-> 0, cache |-> entries,
        network |-> res.network]
  ELSE [outcome |-> "miss", count |-> res.count,
        cache |-> CacheSet(passwordHash, res.count),
        network |-> res.network]

ServiceLookup(passwordHash, got, answer) ==
  IF got.panic
  THEN [outcome |-> "panic", count |-> 0, cache |-> entries, network |-> 0]
  ELSE IF got.found
  THEN [outcome |-> "hit", count |-> got.count, cache |-> entries,
        network |-> 0]
  ELSE ServiceMiss(passwordHash, ClientCheckPasswordHash(passwordHash, answer))

\* Service.CheckPasswordHash: the outcome (hit, miss, error or panic), the
\* count returned, the cache afterwards and the requests made to the range
\* API
ServiceCheckPasswordHash(passwordHash, answer) ==
  ServiceLookup(passwordHash, CacheGet(passwordHash), answer)

\* Cache.cleanup, one tick of its ticker
CacheCleanup ==
  [h \in {k \in DOMAIN entries : entries[k].age <= TTL} |-> entries[h]]

\* a timestamp one clock step older; past the TTL its age is no longer told
\* apart
Aged(age) == IF age > TTL THEN age ELSE age + ClockStep

(***************************************************************************)
(* sync.RWMutex: the number of read locks held, the goroutine that has     *)
(* called Lock and keeps new readers out, and whether it holds the lock.   *)
(***************************************************************************)
RWMutex == [readers |-> 0, writer |-> "none", exclusive |-> FALSE]

\* an RLock that does not wait for a writer
CanRLock_Always(mu) == TRUE

\* RLock returns when no goroutine holds or awaits the write lock
CanRLock(mu) == mu.writer = "none"
RLock(mu) == [mu EXCEPT !.readers = @ + 1]
RUnlock(mu) == [mu EXCEPT !.readers = @ - 1]

\* Lock: the caller first excludes other writers and new readers, then
\* waits for the readers that hold the lock to leave
CanAnnounce(mu) == mu.writer = "none"
Announce(mu, p) == [mu EXCEPT !.writer = p]
CanLock(mu, p) == mu.writer = p /\ ~mu.exclusive /\ mu.readers = 0
Lock(mu) == [mu EXCEPT !.exclusive = TRUE]
Unlock(mu) == [mu EXCEPT !.writer = "none", !.exclusive = FALSE]

(***************************************************************************)
(* The cache under concurrent callers: every method is a sequence of       *)
(* steps of the goroutine that runs it.                                    *)
(***************************************************************************)
\* two requests in Service.CheckPasswordHash, the cleanup goroutine, and a
\* caller of Stats and Clear
Lookups == {"lookup_1", "lookup_2"}
CacheRoutines == Lookups \cup {"cleanup", "admin"}

\* a goroutine that is in no method of the cache
Outside == [pc |-> "idle", hash |-> <<>>, count |-> 0]

At(p, at) == routines[p].pc = at

\* one step of goroutine p: it becomes r, the mutex mu and the map m
Moves(p, r, mu, m) ==
  /\ backend' = [backend EXCEPT !.routines[p] = r, !.mutex = mu,
                                !.entries = m]
  /\ UNCHANGED <<pageVars, coordVars>>

Goes(p, at, mu, m) == Moves(p, [routines[p] EXCEPT !.pc = at], mu, m)

\* Service.CheckPasswordHash calls Cache.Get(hash): RLock, the map read,
\* the deferred RUnlock; a miss goes on to the range API
lockedGet(p) ==
  \/ /\ At(p, "idle")
     /\ CanRLock(mutex)
     /\ \E h \in {H_sha1, H_sha1_lower} :
           Moves(p, [pc |-> "Get:read", hash |-> h, count |-> 0],
                 RLock(mutex), entries)
  \/ /\ At(p, "Get:read")
     /\ Moves(p, [pc |-> IF CacheGet(routines[p].hash).found
                         THEN "Get:hit" ELSE "Get:miss",
                  hash |-> routines[p].hash,
                  count |-> CacheGet(routines[p].hash).count],
              mutex, entries)
  \/ /\ At(p, "Get:hit")
     /\ Moves(p, Outside, RUnlock(mutex), entries)
  \/ /\ At(p, "Get:miss")
     /\ Goes(p, "client", RUnlock(mutex), entries)

\* the range API answers with a count, which Service.CheckPasswordHash hands
\* to Cache.Set: Lock, the map write, the deferred Unlock; when the client
\* fails nothing is cached
lockedSet(p) ==
  \/ /\ At(p, "client")
     /\ Moves(p, Outside, mutex, entries)
  \/ /\ At(p, "client")
     /\ CanAnnounce(mutex)
     /\ \E n \in {0, 3} :
           Moves(p, [pc |-> "Set:Lock", hash |-> routines[p].hash,
                     count |-> n],
                 Announce(mutex, p), entries)
  \/ /\ At(p, "Set:Lock")
     /\ CanLock(mutex, p)
     /\ Goes(p, "Set:write", Lock(mutex), entries)
  \/ /\ At(p, "Set:write")
     /\ Goes(p, "Set:Unlock", mutex,
             CacheSet(routines[p].hash, routines[p].count))
  \/ /\ At(p, "Set:Unlock")
     /\ Moves(p, Outside, Unlock(mutex), entries)

\* the entries the loop of cleanup has yet to delete
Expired == {h \in DOMAIN entries : entries[h].age > TTL}

\* Cache.cleanup: a tick of the ticker, Lock, one delete per expired entry
\* met by the range loop, Unlock
lockedCleanup ==
  \/ /\ At("cleanup", "idle")
     /\ ticker = 0
     /\ CanAnnounce(mutex)
     /\ backend' = [backend EXCEPT !.routines["cleanup"].pc = "cleanup:Lock",
                                   !.mutex = Announce(mutex, "cleanup"),
                                   !.ticker = SweepInterval]
     /\ UNCHANGED <<pageVars, coordVars>>
  \/ /\ At("cleanup", "cleanup:Lock")
     /\ CanLock(mutex, "cleanup")
     /\ Goes("cleanup", "cleanup:range", Lock(mutex), entries)
  \/ /\ At("cleanup", "cleanup:range")
     /\ \E h \in Expired :
           Goes("cleanup", "cleanup:range", mutex,
                [k \in DOMAIN entries \ {h} |-> entries[k]])
  \/ /\ At("cleanup", "cleanup:range")
     /\ Expired = {}
     /\ Goes("cleanup", "idle", Unlock(mutex), entries)

\* Cache.Stats: RLock, len(c.entries), the deferred RUnlock
lockedStats ==
  \/ /\ At("admin", "idle")
     /\ CanRLock(mutex)
     /\ Goes("admin", "Stats:read", RLock(mutex), entries)
  \/ /\ At("admin", "Stats:read")
     /\ Moves("admin", [pc |-> "Stats:RUnlock", hash |-> <<>>,
                        count |-> Cardinality(DOMAIN entries)],
              mutex, entries)
  \/ /\ At("admin", "Stats:RUnlock")
     /\ Moves("admin", Outside, RUnlock(mutex), entries)

\* Cache.Clear: Lock, a new empty map, the deferred Unlock
lockedClear ==
  \/ /\ At("admin", "idle")
     /\ CanAnnounce(mutex)
     /\ Goes("admin", "Clear:Lock", Announce(mutex, "admin"), entries)
  \/ /\ At("admin", "Clear:Lock")
     /\ CanLock(mutex, "admin")
     /\ Goes("admin", "Clear:write", Lock(mutex), entries)
  \/ /\ At("admin", "Clear:write")
     /\ Goes("admin", "Clear:Unlock", mutex, [h \in {} |-> NULL])
  \/ /\ At("admin", "Clear:Unlock")
     /\ Goes("admin", "idle", Unlock(mutex), entries)

\* a field of a decoded JSON body, the zero value when the body has none
Field(body, name, zero) == IF name \in DOMAIN body THEN body[name] ELSE zero

\* strings.ToLower on the domains and usernames of the model
StringsToLower(v) ==
  CASE v = "Alice" -> "alice"
    [] v = "Bob" -> "bob"
    [] OTHER -> v

\* json.Decode into loginData
DecodeLoginData(body) ==
  [Domain |-> Field(body, "domain", ""),
   Username |-> Field(body, "username", ""),
   Hash |-> Field(body, "hash", <<>>),
   DeviceID |-> Field(body, "device_id", ""),
   HasMFA |-> Field(body, "hasMFA", FALSE),
   MFAType |-> Field(body, "mfaType", "")]

\* govalidator.ValidateStruct: the required fields are not empty
ValidLoginData(data) ==
  /\ data.Domain # ""
  /\ data.Username # ""
  /\ data.Hash # <<>>
  /\ data.DeviceID # ""

\* the events.LoginEvent the handler builds (the time stamp and the client
\* address are left out)
LoginEvent(data) ==
  [User |-> StringsToLower(data.Username),
   Domain |-> StringsToLower(data.Domain),
   Hash |-> data.Hash, DeviceID |-> data.DeviceID,
   HasMFA |-> data.HasMFA, MFAType |-> data.MFAType]

\* InMemoryStore.AddLoginEvent
AddLoginEvent(event) ==
  Put(storeData, event.DeviceID,
      Append(IF event.User \in DOMAIN storeData THEN storeData[event.User]
             ELSE <<>>,
             event))

\* InMemoryStore.IsValidToken
IsValidToken(token) == storeToken = token

\* InMemoryStore.GetAllDomains: the lower-cased domain of every event of
\* every list of the map
GetAllDomains ==
  UNION {{StringsToLower(storeData[k][n].Domain) : n \in 1..Len(storeData[k])} :
           k \in DOMAIN storeData}

\* InMemoryStore.StoreHIBPResult
StoreHIBPResult(passwordHash, breachCount) ==
  Put(hibpResults, passwordHash, breachCount)

(***************************************************************************)
(* The store under concurrent callers.                                     *)
(***************************************************************************)
\* two requests in the register handler and a request for the dashboard
Handlers == {"handler_1", "handler_2"}
StoreRoutines == Handlers \cup {"dashboard"}

\* a goroutine that is in no method of the store
OutsideStore == [pc |-> "idle", method |-> "", data |-> NULL, n |-> 0]

\* the reports the two requests carry
ConcurrentBodies ==
  {[domain |-> d, username |-> "alice", hash |-> H_sha1,
    device_id |-> "device_a"] : d \in {"https://site:443", "https://other:443"}}

\* the methods GetDashboardStats calls while it holds the read lock
Nested ==
  <<"GetDuplicatePasswords", "GetCompromisedPasswords", "GetUsersWithoutMFA">>

\* one step of goroutine p of the store: it becomes r, the mutex mu, the
\* events store and the breach counts results
StoreMoves(p, r, mu, store, results) ==
  /\ backend' = [backend EXCEPT !.storeRoutines[p] = r, !.storeMutex = mu,
                                !.storeData = store, !.hibpResults = results]
  /\ UNCHANGED <<pageVars, coordVars>>

\* the register handler of one request: StoreHIBPResult when the breach
\* check gave a count, then AddLoginEvent; each is Lock, the write, and the
\* deferred Unlock
lockedHandler(p) ==
  LET r == storeRoutines[p]
  IN  \/ /\ r.pc = "idle"
         /\ CanAnnounce(storeMutex)
         /\ \E body \in ConcurrentBodies,
               m \in {"StoreHIBPResult", "AddLoginEvent"} :
               StoreMoves(p, [pc |-> "Lock", method |-> m,
                              data |-> DecodeLoginData(body), n |-> 0],
                          Announce(storeMutex, p), storeData, hibpResults)
      \/ /\ r.pc = "Lock"
         /\ CanLock(storeMutex, p)
         /\ StoreMoves(p, [r EXCEPT !.pc = "write"], Lock(storeMutex),
                       storeData, hibpResults)
      \/ /\ r.pc = "write"
         /\ IF r.method = "StoreHIBPResult"
            THEN StoreMoves(p, [r EXCEPT !.pc = "Unlock"], storeMutex,
                            storeData, StoreHIBPResult(r.data.Hash, 3))
            ELSE StoreMoves(p, [r EXCEPT !.pc = "Unlock"], storeMutex,
                            AddLoginEvent(LoginEvent(r.data)), hibpResults)
      \/ /\ r.pc = "Unlock"
         /\ StoreMoves(p, [r EXCEPT !.pc = IF r.method = "StoreHIBPResult"
                                           THEN "next" ELSE "served"],
                       Unlock(storeMutex), storeData, hibpResults)
      \/ /\ r.pc = "next"
         /\ CanAnnounce(storeMutex)
         /\ StoreMoves(p, [r EXCEPT !.pc = "Lock", !.method = "AddLoginEvent"],
                       Announce(storeMutex, p), storeData, hibpResults)

\* GetDashboardStats: RLock, the loops over s.data, then the three methods
\* of Nested, each RLock and deferred RUnlock, and the deferred RUnlock of
\* GetDashboardStats itself; n counts the nested calls made
GetDashboardStats ==
  LET r == storeRoutines["dashboard"]
      p == "dashboard"
  IN  \/ /\ r.pc = "idle"
         /\ CanRLock(storeMutex)
         /\ StoreMoves(p, [r EXCEPT !.pc = "range"], RLock(storeMutex),
                       storeData, hibpResults)
      \/ /\ r.pc = "range"
         /\ StoreMoves(p, [r EXCEPT !.pc = "call",
                                    !.data = [TotalDomains |->
                                                Cardinality(GetAllDomains)]],
                       storeMutex, storeData, hibpResults)
      \/ /\ r.pc = "call"
         /\ r.n < Len(Nested)
         /\ CanRLock(storeMutex)
         /\ StoreMoves(p, [r EXCEPT !.pc = "nested", !.n = @ + 1,
                                    !.method = Nested[r.n + 1]],
                       RLock(storeMutex), storeData, hibpResults)
      \/ /\ r.pc = "nested"
         /\ StoreMoves(p, [r EXCEPT !.pc = "call"], RUnlock(storeMutex),
                       storeData, hibpResults)
      \/ /\ r.pc = "call"
         /\ r.n = Len(Nested)
         /\ StoreMoves(p, OutsideStore, RUnlock(storeMutex),
                       storeData, hibpResults)

\* the handler after validation: what the breach check leaves, and the
\* response.  A panic ends the handler where it is raised; the server closes
\* the connection without a response.
Respond(data, check, checked) ==
  IF check.outcome = "panic"
  THEN [status |-> "aborted", check |-> check, hibp |-> NULL,
        cache |-> entries, results |-> hibpResults, store |-> storeData]
  ELSE [status |-> "201", check |-> check,
        hibp |-> [checked |-> checked,
                  breached |-> checked /\ check.count > 0,
                  breach_count |-> check.count],
        cache |-> check.cache,
        results |-> IF checked THEN StoreHIBPResult(data.Hash, check.count)
                    ELSE hibpResults,
        store |-> AddLoginEvent(LoginEvent(data))]

Checked(check) == check.outcome \in {"hit", "miss"}

Handle(data, check) ==
  IF ~ValidLoginData(data)
  THEN [status |-> "400", check |-> NULL, hibp |-> NULL,
        cache |-> entries, results |-> hibpResults, store |-> storeData]
  ELSE Respond(data, check, Checked(check))

\* HandleLoginData for a POST with this body, the range API answering with
\* answer: the response and the state it leaves
HandleLoginData(body, answer) ==
  Handle(DecodeLoginData(body),
         ServiceCheckPasswordHash(Field(body, "hash", <<>>), answer))

\* the age of the entry the cache holds for passwordHash, or -1
CachedAge(passwordHash) ==
  IF passwordHash \in DOMAIN entries THEN entries[passwordHash].age ELSE -1

\* the state after the handler has served a request
Served(headers, body, answer, r, turn, count) ==
  backend' =
    [backend EXCEPT
       !.handled = count,
       !.entries = r.cache,
       !.hibpResults = r.results,
       !.storeData = r.store,
       !.lastResponse = [turn |-> turn, headers |-> headers, body |-> body,
                         status |-> r.status, hibp |-> r.hibp],
       !.lastCheck =
         IF r.check = NULL THEN NULL
         ELSE [turn |-> turn, hash |-> body.hash,
               outcome |-> r.check.outcome, count |-> r.check.count,
               network |-> r.check.network, answer |-> answer,
               cachedAge |-> CachedAge(body.hash)]]

\* the register endpoint serves one request; count is the number of requests
\* of the extension served after it.  The mux hands every request for the
\* path to HandleLoginData, which reads the method and the body of the
\* request and none of its headers.
register(headers, body, answer, count) ==
  Served(headers, body, answer, HandleLoginData(body, answer),
         IF lastResponse = NULL THEN 0 ELSE 1 - lastResponse.turn, count)

\* the tokens a client may present: none, the token of the store, another
Tokens == {"", "secret", "guess"}

\* the reports clients post: two devices, two sites, the user name in two
\* spellings
EventBodies ==
  {[domain |-> d, username |-> u, hash |-> H_sha1, device_id |-> dev] :
     d \in {"https://site:443", "https://other:443"},
     u \in {"alice", "Alice"},
     dev \in {"device_a", "device_b"}}

\* the bodies a client of the register endpoint may post
RegisterBodies ==
  {[domain |-> "https://site:443", username |-> "Alice", hash |-> h,
    device_id |-> "device_a"] : h \in {H_sha1, H_short, SHA512_pw}}
    \cup {[domain |-> "https://site:443", username |-> "alice",
           hash |-> H_sha1_lower, device_id |-> "device_a",
           hasMFA |-> TRUE, mfaType |-> "totp"],
          [domain |-> "https://site:443", username |-> "alice",
           device_id |-> "device_a"]}

\* the handler reaches the HTTP exchange with the range API: the request is
\* valid, the cache has no fresh entry and the hash has the length of a SHA-1
Reaches(data) ==
  /\ ValidLoginData(data)
  /\ ~CacheGet(data.Hash).found
  /\ Len(data.Hash) = HashLength

CallsRangeAPI(body) == Reaches(DecodeLoginData(body))

\* the answers of the range API to choose from: none when it is not asked
AnswersFor(body) ==
  IF CallsRangeAPI(body) THEN NetAnswers ELSE {[kind |-> "notAsked"]}

\* a client that holds the token posts to /api/login/register
postRegister ==
  /\ \E body \in RegisterBodies :
        \E answer \in AnswersFor(body) :
           register(RequestHeaders(storeToken), body, answer, handled)
  /\ UNCHANGED <<pageVars, coordVars>>

\* a client posts a report, presenting any token or none
postEvent ==
  /\ \E token \in Tokens, body \in EventBodies :
        \E answer \in AnswersFor(body) :
           register(RequestHeaders(token), body, answer, handled)
  /\ UNCHANGED <<pageVars, coordVars>>

\* the backend receives the next request of the extension
serveRegister ==
  /\ handled < Len(requests)
  /\ \E answer \in AnswersFor(requests[handled + 1].body) :
        register(RequestHeaders(requests[handled + 1].token),
                 requests[handled + 1].body, answer, handled + 1)
  /\ UNCHANGED <<pageVars, coordVars>>

\* the clock of the backend advances, never past a tick of the ticker
passTime ==
  /\ ticker > 0
  /\ backend' = [backend EXCEPT
                   !.ticker = ticker - ClockStep,
                   !.entries = [h \in DOMAIN entries |->
                                  [entries[h] EXCEPT !.age = Aged(@)]],
                   !.lastCheck = NULL]
  /\ UNCHANGED <<pageVars, coordVars>>

\* the ticker of the cache fires and cleanup sweeps
cleanup ==
  /\ ticker = 0
  /\ backend' = [backend EXCEPT !.ticker = SweepInterval,
                                !.entries = CacheCleanup,
                                !.lastCheck = NULL]
  /\ UNCHANGED <<pageVars, coordVars>>

\* the background script before any message, the storage holding cfg
InitCoordinator(cfg) ==
  background = [config |-> cfg, delivered |-> 0, lastReply |-> NULL,
                requests |-> <<>>,
                calls |-> [p \in Callers |-> [pc |-> "idle", result |-> NULL]],
                returned |-> {}]

\* the backend after start-up, the memory store initialised with its
\* token: nothing stored, nothing cached
InitBackend ==
  backend = [handled |-> 0,
             token |-> "secret",
             entries |-> [h \in {} |-> NULL],
             ticker |-> SweepInterval,
             storeData |-> [k \in {} |-> <<>>],
             hibpResults |-> [h \in {} |-> 0],
             lastResponse |-> NULL,
             lastCheck |-> NULL,
             mutex |-> RWMutex,
             routines |-> [p \in CacheRoutines |-> Outside],
             storeMutex |-> RWMutex,
             storeRoutines |-> [p \in StoreRoutines |-> OutsideStore]]

(***************************************************************************)
(* Specification of one page context.                                      *)
(***************************************************************************)
NoDescriptor ==
  Descriptor(S_empty, S_empty, S_empty, S_empty, S_empty, -1, S_empty, S_empty)

\* the state when the content script is loaded into a document of doms,
\* with the user and the page held to sc
InitScope(sc, doms) ==
  /\ scope = sc
  /\ pc = "loading"
  /\ dom \in doms
  /\ value = [e \in Range(Inputs) |-> ""]
  /\ url = 0
  /\ failureShown = FALSE
  /\ successShown = FALSE
  /\ formData = EmptyFormData
  /\ passwordFields = <<>>
  /\ usernameFields = <<>>
  /\ mfaFields = <<>>
  /\ hasMFADetected = FALSE
  /\ detectedMFAType = ""
  /\ monitoredElements = {}
  /\ listeners = [e \in Elements |-> 0]
  /\ lastSentLogin = NULL
  /\ pendingLoginData = NULL
  /\ timers = {}
  /\ monitors = {}
  /\ messages = <<>>
  /\ nextId = 1
  /\ history = [invoked |-> <<>>, discarded |-> {}, cleared |-> {},
                superseded |-> {}, expired |-> {}, early |-> {},
                conflict |-> {},
                trig |-> <<>>, near |-> {}]


\* Correlation: a login page whose second step may arrive later; the page
\* shows and hides outcome markers.
Init ==
  /\ InitCoordinator(NULL)
  /\ InitBackend
  /\ fd = NoDescriptor
  /\ cls = "none"
  /\ InitScope([attempts |-> MaxAttempts, users |-> {"alice"},
             inserts |-> {OtherNodes, SecondStep}],
            {LoginPage, LoginPageWithMFA})

Next ==
  \/ initialize
  \/ observeDOMChanges
  \/ userInput
  \/ handleFormSubmit
  \/ buttonClickHandler
  \/ pageUpdate
  \/ \E t \in timers : mfaWaitExpired(t)
  \/ \E m \in monitors : checkResult(m)
  \/ tick

Spec == Init /\ [][Next]_vars

\* Outcome detection: a login page with a one-time-code field, so that a
\* trigger starts the poll loop at once, and after a re-scan only when the
\* MFA wait expires; the page shows and hides outcome markers and changes
\* its location.
InitPoll ==
  /\ InitCoordinator(NULL)
  /\ InitBackend
  /\ fd = NoDescriptor
  /\ cls = "none"
  /\ InitScope([attempts |-> MaxAttempts, users |-> {"alice"},
             inserts |-> {OtherNodes}],
            {LoginPageWithMFA})

NextPoll ==
  \/ initialize
  \/ observeDOMChanges
  \/ \E t \in timers : mfaWaitExpired(t)
  \/ userInput
  \/ handleFormSubmit
  \/ buttonClickHandler
  \/ navigate
  \/ pageUpdate
  \/ \E m \in monitors : checkResult(m)
  \/ tick

SpecPoll == InitPoll /\ [][NextPoll]_vars

\* the browser runs a callback that is due, and time passes
SpecPollFair ==
  /\ SpecPoll
  /\ WF_vars(tick)
  /\ WF_vars(\E m \in monitors : checkResult(m))
  /\ WF_vars(\E t \in timers : mfaWaitExpired(t))

\* Debounce: the same page, two accounts, one attempt more.
InitDebounce ==
  /\ InitCoordinator(NULL)
  /\ InitBackend
  /\ fd = NoDescriptor
  /\ cls = "none"
  /\ InitScope([attempts |-> MaxAttempts + 1, users |-> Usernames, inserts |-> {}],
            {LoginPageWithMFA})

NextDebounce ==
  \/ initialize
  \/ userInput
  \/ handleFormSubmit
  \/ buttonClickHandler
  \/ \E m \in monitors : checkResult(m)
  \/ tick

SpecDebounce == InitDebounce /\ [][NextDebounce]_vars

\* Classification: one field descriptor, classified as the scan does.
classify ==
  /\ cls = "none"
  /\ cls' = Classify(fd)
  /\ UNCHANGED <<pc, dom, value, url, failureShown, successShown, formData,
                 passwordFields, usernameFields, mfaFields, hasMFADetected,
                 detectedMFAType, monitoredElements, listeners, lastSentLogin,
                 pendingLoginData, timers, monitors, messages, nextId,
                 history, scope, fd>>
  /\ UNCHANGED <<coordVars, backVars>>

InitClassify ==
  /\ InitCoordinator(NULL)
  /\ InitBackend
  /\ fd \in Descriptors
  /\ cls = "none"
  /\ InitScope([attempts |-> 0, users |-> {}, inserts |-> {}], {LoginPage})

NextClassify == classify

SpecClassify == InitClassify /\ [][NextClassify]_vars

\* what chrome.storage.local may hold when the background script starts:
\* nothing, a configuration of the current shape, or one of the legacy shape
\* whose identifier is in deviceId
Configs ==
  {NULL}
    \cup {[DEFAULT_CONFIG EXCEPT !.api = a, !.enabled = e, !.filters = f,
                                 !.id = i] :
            a \in Endpoints, e \in BOOLEAN, f \in FilterLists,
            i \in {"", "device_a"}}
    \cup {[DEFAULT_CONFIG EXCEPT !.deviceId = "device_b", !.enabled = e] :
            e \in BOOLEAN}

\* Reporting: one attempt on a login page, the background script with any
\* stored configuration, and the backend serving what the extension sends.
InitCoordinatorSpec ==
  /\ \E cfg \in Configs : InitCoordinator(cfg)
  /\ InitBackend
  /\ fd = NoDescriptor
  /\ cls = "none"
  /\ InitScope([attempts |-> 1, users |-> {"alice"}, inserts |-> {}],
               {LoginPage, LoginPageWithMFA})

NextCoordinator ==
  \/ initialize
  \/ userInput
  \/ handleFormSubmit
  \/ buttonClickHandler
  \/ \E t \in timers : mfaWaitExpired(t)
  \/ \E m \in monitors : checkResult(m)
  \/ tick
  \/ deliverLoginDetected
  \/ deliverGetDeviceId
  \/ deliverUnknown
  \/ serveRegister

SpecCoordinator == InitCoordinatorSpec /\ [][NextCoordinator]_vars

\* First run: the storage is empty, and the background script and the popup
\* call loadConfig.
InitFirstRun ==
  /\ InitCoordinator(NULL)
  /\ InitBackend
  /\ fd = NoDescriptor
  /\ cls = "none"
  /\ InitScope([attempts |-> 0, users |-> {}, inserts |-> {}], {LoginPage})

NextFirstRun ==
  \/ \E p \in Callers : storageGet(p)
  \/ \E p \in Callers : loadConfigCallback(p)

SpecFirstRun == InitFirstRun /\ [][NextFirstRun]_vars

\* HIBP lookups: clients post register requests while the clock of the
\* backend advances and the cache is swept.
InitBackendSpec ==
  /\ InitCoordinator(NULL)
  /\ InitBackend
  /\ fd = NoDescriptor
  /\ cls = "none"
  /\ InitScope([attempts |-> 0, users |-> {}, inserts |-> {}], {LoginPage})

NextBackend ==
  \/ postRegister
  \/ passTime
  \/ cleanup

SpecBackend == InitBackendSpec /\ [][NextBackend]_vars

\* the clock advances while no goroutine is inside a method of the cache: a
\* critical section is short against a clock step
elapse ==
  /\ \A p \in CacheRoutines : At(p, "idle") \/ At(p, "client")
  /\ passTime

\* Capture: two accounts and two passwords on a login page that re-scans;
\* the user retypes both fields while attempts wait and are polled.
InitCapture ==
  /\ InitCoordinator(NULL)
  /\ InitBackend
  /\ fd = NoDescriptor
  /\ cls = "none"
  /\ InitScope([attempts |-> 2, users |-> Usernames,
                passwords |-> {"pw", "pw2"}, inserts |-> {OtherNodes}],
               {LoginPage})

NextCapture ==
  \/ initialize
  \/ observeDOMChanges
  \/ userInput
  \/ handleFormSubmit
  \/ buttonClickHandler
  \/ \E t \in timers : mfaWaitExpired(t)
  \/ \E m \in monitors : checkResult(m)
  \/ tick

SpecCapture == InitCapture /\ [][NextCapture]_vars

\* The cache under concurrency: two lookups, the sweep, Stats and Clear.
NextCache ==
  \/ \E p \in Lookups : lockedGet(p)
  \/ \E p \in Lookups : lockedSet(p)
  \/ lockedCleanup
  \/ lockedStats
  \/ lockedClear
  \/ elapse

SpecCache == InitBackendSpec /\ [][NextCache]_vars

\* The store under concurrency: two register requests and the dashboard.
NextStoreLocks ==
  \/ \E p \in Handlers : lockedHandler(p)
  \/ GetDashboardStats

SpecStoreLocks == InitBackendSpec /\ [][NextStoreLocks]_vars

\* The store: clients with and without the token post reports of two
\* devices and two sites.
NextStore == postEvent

SpecStore == InitBackendSpec /\ [][NextStore]_vars

\* Observation: a login form that is complete at load or renders its fields
\* later, a second step in a form of its own or in the login form, and a
\* user who types, clears the username and triggers.
InitScan ==
  /\ InitCoordinator(NULL)
  /\ InitBackend
  /\ fd = NoDescriptor
  /\ cls = "none"
  /\ InitScope([attempts |-> MaxAttempts, users |-> {"alice", ""},
                inserts |-> {OtherNodes, SecondStep, LateFields, LateMFA}],
               {LoginPage, BareForm})

NextScan ==
  \/ initialize
  \/ observeDOMChanges
  \/ userInput
  \/ handleFormSubmit
  \/ buttonClickHandler
  \/ \E t \in timers : mfaWaitExpired(t)
  \/ \E m \in monitors : checkResult(m)
  \/ tick

SpecScan == InitScan /\ [][NextScan]_vars

(***************************************************************************)
(* Properties.                                                             *)
(***************************************************************************)
Emitted(a) == \E i \in 1..Len(messages) : messages[i].aid = a
Running(a) == \E m \in monitors : m.aid = a
Invoked(a) == \E i \in 1..Len(history.invoked) : history.invoked[i] = a

\* monitor m is due and checkResult(m) is the step taken
Polled(m) == m \in monitors /\ m.wait = 0 /\ m \notin monitors'

\* what checkResult(m) finds on the page
SeesFailure == failureShown
SeesSuccess(m) == successShown \/ Href(url) # m.initialUrl

\* the elapsed times at which checkResult runs
PollTicks ==
  {InitialDelay + k * PollInterval :
     k \in 0..((LOGIN_SUCCESS_WAIT_TIME - InitialDelay) \div PollInterval)}

\* C1: two attempts for the same (origin, username) whose triggers are less
\* than DEBOUNCE_TIME apart never both send a LOGIN_DETECTED message.
C1_OneEventPerDebounceWindow ==
  \A p \in history.near : ~(Emitted(p[1]) /\ Emitted(p[2]))

\* C2: a poll that finds a failure signal ends the attempt without a message:
\* it is not polled again, and a discarded attempt never sends a message,
\* whatever the page shows later.
C2_FailureStep ==
  \A m \in monitors :
     (Polled(m) /\ SeesFailure) =>
        /\ messages' = messages
        /\ \A m2 \in monitors' : m2.aid # m.aid
        /\ m.aid \in history'.discarded

C2_FailureDiscards ==
  /\ [][C2_FailureStep]_vars
  /\ [](\A a \in history.discarded : ~Emitted(a) /\ ~Running(a))

C2_Witness ==
  \E a \in history.discarded :
     /\ ~failureShown
     /\ successShown \/ url # 0
     /\ \E b \in 1..Len(history.trig) : b # a /\ Emitted(b)

\* C3: a poll that finds a success signal (a marker, a logged-in indicator or
\* a changed location) and no failure signal sends the message at that poll;
\* polls run at elapsed 1000, 1500, ..., 5000 ms and none is skipped.
C3_SuccessStep ==
  \A m \in monitors :
     (Polled(m) /\ ~SeesFailure /\ SeesSuccess(m)) =>
        /\ messages' = Append(messages, LoginDetected(m))
        /\ \A m2 \in monitors' : m2.aid # m.aid

C3_SuccessEmitsAtNextPoll ==
  /\ [][C3_SuccessStep]_vars
  /\ [](\A m \in monitors : m.elapsed + m.wait \in PollTicks)

C3_Witness ==
  \E a \in history.early :
     Emitted(a) /\ ~failureShown /\ (successShown \/ url # 0)

\* C4: a poll that finds neither signal polls again 500 ms later while fewer
\* than 5000 ms have elapsed, and sends the message as soon as 5000 ms have.
C4_TimeoutStep ==
  \A m \in monitors :
     (Polled(m) /\ ~SeesFailure /\ ~SeesSuccess(m)) =>
        IF m.elapsed < LOGIN_SUCCESS_WAIT_TIME
        THEN /\ messages' = messages
             /\ [m EXCEPT !.wait = PollInterval] \in monitors'
        ELSE /\ messages' = Append(messages, LoginDetected(m))
             /\ \A m2 \in monitors' : m2.aid # m.aid

C4_TimeoutEmits ==
  /\ [][C4_TimeoutStep]_vars
  /\ [](\A m \in monitors : m.elapsed <= LOGIN_SUCCESS_WAIT_TIME)

C4_Witness ==
  \E a \in 1..Len(history.trig) :
     /\ Emitted(a)
     /\ a \notin history.early
     /\ ~failureShown /\ ~successShown /\ url = 0

\* every invocation of the outcome detector is either still polling, or has
\* discarded, or has sent exactly one message, never two of these; and its
\* next poll is always one of the ticks 1000, 1500, ..., 5000 ms
C5_Outcomes ==
  /\ \A a \in 1..Len(history.trig) :
        /\ Cardinality({i \in 1..Len(messages) : messages[i].aid = a}) <= 1
        /\ Cardinality({m \in monitors : m.aid = a}) <= 1
        /\ ~(a \in history.discarded /\ Emitted(a))
        /\ Running(a) => (a \notin history.discarded /\ ~Emitted(a))
        /\ Invoked(a) <=> (Running(a) \/ a \in history.discarded \/ Emitted(a))
  /\ \A m \in monitors :
        /\ m.elapsed + m.wait \in PollTicks
        /\ m.wait \in {0, PollInterval, InitialDelay}

\* C5: every invocation of the outcome detector stops polling, having either
\* discarded or sent exactly one message, never both and never two messages;
\* it polls at the ticks 1000, 1500, ..., 5000 ms only.
C5_ExactlyOneOutcome ==
  /\ []C5_Outcomes
  /\ \A a \in 1..MaxAttempts : Running(a) ~> ~Running(a)

C5_Witness ==
  /\ monitors = {}
  /\ \E a \in history.discarded : \E b \in 1..Len(history.trig) : Emitted(b) /\ a # b

\* a trigger step that creates an attempt (it was not debounced)
NewAttempt == nextId' = nextId + 1

\* an MFA-classified field of the page has been registered by a scan
MFAObserved ==
  \E e \in dom \cap Range(Inputs) :
     Classify(InputDesc(e)) = "MFACode" /\ listeners[e] > 0

\* the outcome check of attempt a starts in this step, for a confirmed
\* second factor
StartsConfirmed(a) ==
  \E m \in monitors' \ monitors :
     /\ m.aid = a
     /\ m.hasMFA = TRUE
     /\ m.mfaType = "TOTP"
     /\ m.elapsed = 0
     /\ m.wait = InitialDelay

\* C6: a trigger that creates an attempt while an MFA-classified field has
\* been observed on the page starts the outcome check at once with hasMFA
\* true and mfaType "TOTP"; it arms no MFA-wait timer and creates no pending
\* login.
C6_MFAObservedSkipsWait ==
  [][(NewAttempt /\ MFAObserved) =>
        /\ StartsConfirmed(nextId)
        /\ timers' = timers
        /\ pendingLoginData' = pendingLoginData]_vars

\* C7: a scan that registers an MFA-classified field while a login is pending
\* cancels the pending timer in that step, starts the outcome check of the
\* pending attempt at once with hasMFA true and mfaType "TOTP", and the
\* cancelled timer's callback never runs.
C7_FastPathStep ==
  (/\ pendingLoginData # NULL
   /\ \E e \in Range(Inputs) :
         Classify(InputDesc(e)) = "MFACode" /\ listeners'[e] > listeners[e]) =>
     /\ \A t \in timers' : t.timeoutId # pendingLoginData.timeoutId
     /\ pendingLoginData' = NULL
     /\ StartsConfirmed(pendingLoginData.timeoutId)

C7_FastPathCancelsWait ==
  /\ [][C7_FastPathStep]_vars
  /\ [](history.cleared \cap history.expired = {})

C7_Witness ==
  \E m \in monitors :
     /\ m.aid \in history.cleared \ history.superseded
     /\ m.hasMFA
     /\ m.elapsed = 0
     /\ history.trig[m.aid].age = PollInterval

\* C8: at most one login is pending and at most one MFA-wait timer is armed,
\* the armed timer is the pending login's, and the timer of a replaced
\* pending login never fires.
C8_OnePendingAttempt ==
  /\ Cardinality(timers) <= 1
  /\ (pendingLoginData = NULL) <=> (timers = {})
  /\ \A t \in timers : t.timeoutId = pendingLoginData.timeoutId
  /\ history.superseded \cap history.expired = {}

C8_Witness ==
  /\ history.superseded # {}
  /\ pendingLoginData # NULL
  /\ \E t \in timers : t.remaining < MFA_WAIT_TIME

\* C9 as stated: once a newer attempt exists, an older attempt never sends a
\* message, whether it was in MFA wait or in the outcome check.
C9_NewAttemptCancelsAll ==
  [][Len(messages') > Len(messages) =>
        messages'[Len(messages')].aid = nextId - 1]_vars

\* C9 as amended: a new attempt cancels the attempt that is in MFA wait, which
\* then never reaches the outcome check and never sends a message; an attempt
\* that is already in the outcome check is left alone.
C9_NewAttemptStep ==
  NewAttempt =>
     /\ monitors \subseteq monitors'
     /\ pendingLoginData # NULL =>
           /\ pendingLoginData.timeoutId \in history'.superseded
           /\ \A t \in timers' : t.timeoutId # pendingLoginData.timeoutId

C9_NewAttemptCancelsPending ==
  /\ [][C9_NewAttemptStep]_vars
  /\ [](\A a \in history.superseded :
           ~Invoked(a) /\ ~Running(a) /\ ~Emitted(a))

C9_Witness ==
  \E a \in history.superseded : Emitted(a + 1)

\* C10: a field whose control type is password is classified Password,
\* whatever its name, id, placeholder, class, maxLength, autocomplete and
\* inputMode.
C10_PasswordTypeIsPassword ==
  (cls # "none" /\ fd.type = S_password) => cls = "Password"

C10_Witness ==
  /\ cls = "Password"
  /\ fd.name = S_username
  /\ fd.placeholder = S_code
  /\ fd.maxLength = 6
  /\ fd.autocomplete = S_one_time_code

(***************************************************************************)
(* Properties of the background script and of the register endpoint.       *)
(***************************************************************************)
\* the configuration the listener works with: what the storage holds, or
\* the defaults
StoredConfig == IF config = NULL THEN DEFAULT_CONFIG ELSE config

\* this step is the listener handling the next LOGIN_DETECTED message
HandlesLogin == delivered' = delivered + 1
Sends == Len(requests') = Len(requests) + 1
Sent == requests'[Len(requests')]

\* C11 as stated: the raw password stays in the page context: no
\* LOGIN_DETECTED message carries a password as typed, and no request to the
\* backend does
C11_PasswordStaysInPage ==
  /\ \A i \in 1..Len(messages) : messages[i].password \notin Passwords
  /\ \A i \in 1..Len(requests) :
        \A p \in Passwords : requests[i].body.hash # Text(p)

\* C11, amended: the request the background script sends for a
\* LOGIN_DETECTED message carries the SHA-512 digest of the message's
\* password and in no field the password as typed
C11_OnlyHashReachesBackend ==
  [][HandlesLogin /\ Sends =>
       /\ Sent.body.hash = sha512(messages[delivered + 1].password)
       /\ Sent.body.hash # Text(messages[delivered + 1].password)
       /\ \A f \in DOMAIN Sent.body \ {"hash"} :
             Sent.body[f] # messages[delivered + 1].password]_vars

C11_Witness ==
  /\ Len(requests) > 0
  /\ requests[1].body.hash = SHA512_pw

\* the host of a URL: what follows "://" up to the next ":" or "/"
AfterScheme(u) ==
  SubSeq(u, 3 + (CHOOSE i \in 1..Len(u) :
                    /\ SubSeq(u, i, i + 2) = <<":", "/", "/">>
                    /\ \A j \in 1..(i - 1) : SubSeq(u, j, j + 2) # <<":", "/", "/">>),
         Len(u))

UpTo(rest, ends) ==
  IF ends = {} THEN rest
  ELSE SubSeq(rest, 1, (CHOOSE i \in ends : \A j \in ends : i <= j) - 1)

HostPart(rest) == UpTo(rest, {i \in 1..Len(rest) : rest[i] \in {":", "/"}})

HostOf(u) == HostPart(AfterScheme(u))

S_loopback == <<"1", "2", "7", ".", "0", ".", "0", ".", "1">>

\* C12: a request is sent only to an endpoint whose host is localhost or
\* the loopback address, or whose scheme is https
C12_OnlySecureEndpoints ==
  \A i \in 1..Len(requests) :
     \/ StartsWith(requests[i].url, S_https)
     \/ HostOf(requests[i].url) \in {S_localhost, S_loopback}

\* C13: while the stored configuration has enabled = false, no message makes
\* the background script send a request
C13_DisabledDropsLogin ==
  [][~StoredConfig.enabled => requests' = requests]_vars

C13_Witness ==
  /\ lastReply # NULL
  /\ lastReply.type = "LOGIN_DETECTED"
  /\ ~StoredConfig.enabled
  /\ delivered > 0

\* C14: with filters configured a login is forwarded only if its username
\* contains one of them, letter case included; with none configured no login
\* is held back by its username
C14_UsernameFilters ==
  [][HandlesLogin =>
       /\ (Sends /\ Len(StoredConfig.filters) > 0) =>
             \E i \in 1..Len(StoredConfig.filters) :
                Includes(Text(messages[delivered + 1].username),
                         StoredConfig.filters[i])
       /\ (Len(StoredConfig.filters) = 0 /\ StoredConfig.enabled
             /\ EndpointAllowed(StoredConfig.api)) => Sends]_vars

C14_Witness ==
  /\ Len(StoredConfig.filters) > 0
  /\ Len(requests) > 0
  /\ delivered = 1

\* C15: the request for a message carries the message's hasMFA and mfaType,
\* and the event the backend stores for it has them
C15_MFAReachesBackend ==
  /\ \A i \in 1..Len(requests) :
        /\ "hasMFA" \in DOMAIN requests[i].body
        /\ "mfaType" \in DOMAIN requests[i].body
        /\ \E j \in 1..delivered :
              /\ requests[i].body.hasMFA = messages[j].hasMFA
              /\ requests[i].body.mfaType = messages[j].mfaType
  /\ \A k \in DOMAIN storeData :
        \A n \in 1..Len(storeData[k]) :
           \E j \in 1..delivered :
              /\ storeData[k][n].HasMFA = messages[j].hasMFA
              /\ storeData[k][n].MFAType = messages[j].mfaType

\* the device id the storage holds, under its current or its legacy name
PersistedId ==
  IF StoredConfig.id # "" THEN StoredConfig.id ELSE StoredConfig.deviceId

\* C16: whatever the configuration, GET_DEVICE_ID is answered with the
\* persisted device id and LOGIN_DETECTED with a success flag
C16_AlwaysAnswered ==
  lastReply # NULL =>
     /\ lastReply.type = "GET_DEVICE_ID" =>
           lastReply.reply = [deviceId |-> PersistedId]
     /\ lastReply.type = "LOGIN_DETECTED" =>
           "success" \in DOMAIN lastReply.reply

\* this step is a lookup by Service.CheckPasswordHash
Looks == lastCheck' # NULL /\ (lastCheck = NULL \/ lastCheck'.turn # lastCheck.turn)

\* C17: a lookup is served from the cache, without a request to the range
\* API, exactly when the cache holds an entry for the hash that is less than
\* the TTL old
C17_HitIffYoungerThanTTL ==
  lastCheck # NULL =>
     ((lastCheck.outcome = "hit" /\ lastCheck.network = 0)
        <=> (lastCheck.cachedAge # -1 /\ lastCheck.cachedAge < TTL))

\* C18: a miss that ends without error stores the count, zero included,
\* with the current time, and a lookup of the same hash that follows at once
\* is a hit with that count and without a request to the range API
C18_MissIsCached ==
  [][Looks =>
       /\ lastCheck'.outcome = "miss" =>
             /\ lastCheck'.hash \in DOMAIN entries'
             /\ entries'[lastCheck'.hash] =
                   [BreachCount |-> lastCheck'.count, age |-> 0]
       /\ (lastCheck # NULL /\ lastCheck.outcome = "miss"
             /\ lastCheck'.hash = lastCheck.hash) =>
             /\ lastCheck'.outcome = "hit"
             /\ lastCheck'.count = lastCheck.count
             /\ lastCheck'.network = 0]_vars

C18_Witness ==
  /\ lastCheck # NULL
  /\ lastCheck.outcome = "hit"
  /\ lastCheck.count = 0
  /\ lastCheck.cachedAge = 0

\* the lookup that lastCheck describes failed: the hash has not the length
\* of a SHA-1, or the request failed, or the status was not 200, or the body
\* could not be read, or the count could not be parsed
Failed ==
  \/ Len(lastCheck.hash) # HashLength
  \/ lastCheck.answer.kind \in {"requestFailed", "status", "bodyUnreadable"}
  \/ lastCheck.answer = [kind |-> "ok", body |-> Body_badcount]

\* C19: a lookup that fails returns an error and leaves the cache as it was
C19_FailureReturnsError ==
  [][(Looks /\ Failed') =>
       /\ lastCheck'.outcome = "error"
       /\ entries' = entries]_vars

\* C20: every register request that passes validation is stored and
\* answered with success, whatever its hash and whatever the breach check
\* comes to
C20_ReportNeverBlocked ==
  (lastResponse # NULL /\ ValidLoginData(DecodeLoginData(lastResponse.body))) =>
     /\ lastResponse.status = "201"
     /\ \E k \in DOMAIN storeData :
           \E n \in 1..Len(storeData[k]) :
              storeData[k][n] = LoginEvent(DecodeLoginData(lastResponse.body))

(***************************************************************************)
(* Properties of the register endpoint's access control and of the store.  *)
(***************************************************************************)
\* the request carries the token of the store as its bearer token
CarriesToken(headers) ==
  /\ "Authorization" \in DOMAIN headers
  /\ headers.Authorization[1] = "Bearer "
  /\ IsValidToken(headers.Authorization[2])

\* C21: the register endpoint calls AddLoginEvent (and answers 201) only for
\* a request whose bearer token is the token of the store; a request without
\* a token or with another token stores nothing
C21_TokenRequired ==
  (lastResponse # NULL /\ lastResponse.status = "201") =>
     CarriesToken(lastResponse.headers)


\* this step is the register endpoint serving a request
Serves ==
  /\ lastResponse' # NULL
  /\ lastResponse = NULL \/ lastResponse'.turn # lastResponse.turn

\* the event of the request served in this step, and the list the store
\* held for its device
Accepted == LoginEvent(DecodeLoginData(lastResponse'.body))
HeldFor(device) ==
  IF device \in DOMAIN storeData THEN storeData[device] ELSE <<>>

\* C22: a request that is stored appends its event to the list of its
\* device and leaves every other list as it was, and the domains
\* GetAllDomains returns afterwards are those it returned before and the
\* lower-cased domain of the event
C22_StoreRetainsEvents ==
  [][(Serves /\ lastResponse'.status = "201") =>
       /\ Accepted.DeviceID \in DOMAIN storeData'
       /\ storeData'[Accepted.DeviceID] =
             Append(HeldFor(Accepted.DeviceID), Accepted)
       /\ \A k \in DOMAIN storeData \ {Accepted.DeviceID} :
             k \in DOMAIN storeData' /\ storeData'[k] = storeData[k]
       /\ GetAllDomains' =
             GetAllDomains \cup {StringsToLower(Accepted.Domain)}]_vars


(***************************************************************************)
(* Properties of the page agent: debounce record, MFA wait, scan, triggers *)
(* and classification.                                                     *)
(***************************************************************************)
\* this step is checkResult(m) sending the LOGIN_DETECTED message of m
Emits(m) == Polled(m) /\ messages' = Append(messages, LoginDetected(m))

\* lastSentLogin is the record written for attempt a: its domain, its
\* username and the time stamp of its trigger
RecordOf(a, m) ==
  /\ lastSentLogin # NULL
  /\ lastSentLogin.domain = m.domain
  /\ lastSentLogin.username = m.username
  /\ lastSentLogin.age = history.trig[a].age

\* C23: when a LOGIN_DETECTED message is sent, a debounce record has been
\* written for its attempt, and lastSentLogin still is that record: no
\* other attempt has replaced it
C23_RecordHeldAtEmission ==
  [][\A m \in monitors :
        Emits(m) => (Invoked(m.aid) /\ RecordOf(m.aid, m))]_vars


\* this step is the callback of MFA-wait timer t
Expires(t) ==
  /\ t \in timers
  /\ t.remaining = 0
  /\ t.timeoutId \in history'.expired \ history.expired

\* how many times the outcome check was started for attempt a
Invocations(a) ==
  Cardinality({i \in 1..Len(history.invoked) : history.invoked[i] = a})

\* the callback of a timer whose attempt saw no MFA field starts the outcome
\* check of that attempt, once, with what is known of the second factor now,
\* and clears the pending login
C24_ExpiryStep ==
  \A t \in timers :
     (Expires(t) /\ ~MFAObserved) =>
        /\ ~Invoked(t.timeoutId)
        /\ history'.invoked = Append(history.invoked, t.timeoutId)
        /\ monitors' \ monitors =
             {[aid |-> t.timeoutId, domain |-> t.domain,
               username |-> t.username, password |-> t.password,
               hasMFA |-> hasMFADetected,
               mfaType |-> IF hasMFADetected THEN detectedMFAType
                           ELSE Undefined,
               elapsed |-> 0, initialUrl |-> Href(url),
               wait |-> InitialDelay]}
        /\ hasMFADetected = MFAObserved
        /\ pendingLoginData' = NULL
        /\ timers' = timers \ {t}

\* C24: an attempt triggered while no MFA field has been observed waits no
\* longer than MFA_WAIT_TIME; when its timer expires the outcome check is
\* started exactly once, with hasMFA and mfaType as known at that moment,
\* and the pending login is cleared
C24_ExpiryStartsOutcomeCheck ==
  /\ [][C24_ExpiryStep]_vars
  /\ [](\A t \in timers : t.remaining \in 0..MFA_WAIT_TIME)
  /\ [](\A a \in history.expired : Invocations(a) = 1)

C24_Witness ==
  /\ ~MFAObserved
  /\ pendingLoginData = NULL
  /\ \E m \in monitors :
        /\ m.aid \in history.expired
        /\ m.hasMFA = FALSE
        /\ m.mfaType = Undefined
        /\ m.elapsed = 0


\* C25: whatever scans have run, no form, field or button has been given
\* listeners more than once; the tracking set holds exactly the elements
\* that have listeners, and a scan gives none to an element of the set
C25_NoDuplicateListeners ==
  /\ [](\A e \in Elements :
          /\ listeners[e] <= 1
          /\ e \in monitoredElements <=> listeners[e] = 1)
  /\ [][\A e \in monitoredElements : listeners'[e] = listeners[e]]_vars

C25_Witness ==
  /\ pc = "ready"
  /\ dom = LoginPage \cup SecondStep
  /\ mfaFields = <<>>
  /\ passwordFields = <<>>
  /\ \A e \in dom : listeners[e] = 1


\* C26: once a scan has run, every field of a form of the page that the
\* classifier gives a role has its value-change listeners, whether it was
\* in the document with its form or inserted into the form later
C26_EveryFieldRegistered ==
  pc = "ready" =>
     \A e \in dom \cap Range(Inputs) :
        (FormOf(e) \in dom /\ Classify(InputDesc(e)) # "Unclassified") =>
           (listeners[e] > 0 /\ e \in monitoredElements)


\* what a trigger is to proceed with: the capture buffer when it holds both
\* values, else the first pair of known fields that both have a value, else
\* the first password field and the first username field of the page
Assemble ==
  IF Truthy(formData.username) /\ Truthy(formData.password)
  THEN [found |-> TRUE, data |-> formData]
  ELSE IF PairByPosition(formData).found THEN PairByPosition(formData)
  ELSE LastResort(PairByPosition(formData).data)

\* this step creates an attempt for the username and the password of data
CreatesAttempt(data) ==
  /\ NewAttempt
  /\ \E x \in (timers' \ timers) \cup (monitors' \ monitors) :
        x.username = data.username /\ x.password = data.password

SubmitPossible == \E f \in dom \cap Range(Forms) : listeners[f] > 0
ClickPossible == \E b \in dom \cap Range(Buttons) : listeners[b] > 0

\* a trigger can run, and what it is to proceed with is not debounced
CanProceed ==
  /\ pc = "ready"
  /\ nextId <= scope.attempts
  /\ Assemble.found
  /\ ~IsDuplicate(getDomain(Href(url)), Assemble.data.username)

\* C27: a form submit and a click on a button both create an attempt with
\* the values assembled from the capture buffer, else from the known fields
\* paired by position, else from the first password and username fields of
\* the whole page
C27_TriggerAssembly ==
  CanProceed =>
     /\ SubmitPossible =>
           ENABLED (handleFormSubmit /\ CreatesAttempt(Assemble.data))
     /\ ClickPossible =>
           ENABLED (buttonClickHandler /\ CreatesAttempt(Assemble.data))


\* this step is a trigger that has not found both a username and a password
FailedTrigger ==
  /\ handleFormSubmit \/ buttonClickHandler
  /\ ~(Truthy(formData'.username) /\ Truthy(formData'.password))

\* C28: a trigger that does not assemble both a username and a password
\* creates no pending login, cancels no timer, starts no outcome check,
\* writes no debounce record and sends no message
C28_FailedTriggerChangesNothing ==
  [][FailedTrigger =>
       UNCHANGED <<pendingLoginData, timers, monitors, lastSentLogin,
                   messages, nextId>>]_vars

C28_Witness ==
  /\ pendingLoginData # NULL
  /\ \E t \in timers : t.timeoutId = pendingLoginData.timeoutId
  /\ listeners["passA"] = 0
  /\ value["userA"] = ""
  /\ formData = [username |-> "", password |-> "pw"]


\* the control types that hold text
TextualTypes == {S_text}

\* C29: a field whose control type is not password, not email and not
\* textual is never classified Username, whatever keywords its name, id and
\* placeholder contain
C29_KeywordsOnlyOnTextual ==
  (cls # "none" /\ ToLowerCase(fd.type) \notin {S_password, S_email} \cup TextualTypes)
     => cls # "Username"


\* the field names a keyword of the MFA set in its name, id, placeholder or
\* class
HasMFAKeyword(input) ==
  \E pattern \in mfaPatternsNumeric \cup mfaPatternsText :
     \/ Includes(ToLowerCase(input.name), pattern)
     \/ Includes(ToLowerCase(input.id), pattern)
     \/ Includes(ToLowerCase(input.placeholder), pattern)
     \/ Includes(ToLowerCase(input.className), pattern)

\* the field has a structural signal of a one-time code
HasStructuralSignal(input) ==
  \/ input.maxLength >= MaxLengthLow /\ input.maxLength <= MaxLengthHigh
  \/ ToLowerCase(input.autocomplete) = S_one_time_code
  \/ ToLowerCase(input.inputMode) = S_numeric

\* C30: a number, tel or text field that is neither Password nor Username
\* is classified MFACode when it names a keyword of the MFA set, sms
\* included, or has a structural signal, whichever of the three types it has
C30_MFARuleUniform ==
  (/\ cls \notin {"none", "Password", "Username"}
   /\ ToLowerCase(fd.type) \in {S_number, S_tel, S_text}
   /\ HasMFAKeyword(fd) \/ HasStructuralSignal(fd))
     => cls = "MFACode"


(***************************************************************************)
(* Properties of concurrent access: the stored configuration, the breach   *)
(* cache and the store.                                                    *)
(***************************************************************************)
\* C31: starting from an empty storage, every loadConfig call resolves with
\* the same device id, and that id is the one the storage holds
C31_OneDeviceId ==
  /\ Cardinality(returned) <= 1
  /\ returned # {} => (config # NULL /\ config.id \in returned)


\* goroutine p is about to read the entry map, or to write it
Reads(p) == At(p, "Get:read") \/ At(p, "Stats:read")
Writes(p) == At(p, "Set:write") \/ At(p, "cleanup:range") \/ At(p, "Clear:write")

\* goroutine p holds a read lock, or the write lock
HoldsRead(p) ==
  \E at \in {"Get:read", "Get:hit", "Get:miss", "Stats:read", "Stats:RUnlock"} :
     At(p, at)
HoldsWrite(p) == mutex.writer = p /\ mutex.exclusive

\* the counts held by the map
Counts(m) == [h \in DOMAIN m |-> m[h].BreachCount]

\* C32: every read of the entry map is made holding the read lock and every
\* write holding the write lock; the write lock is held by one goroutine
\* while no read lock is held, so no goroutine reads the map while another
\* writes it; the map changes only in a step of a goroutine that holds the
\* write lock, and the sweep deletes only entries older than the TTL
C32_CacheUnderMutex ==
  /\ [](\A p \in CacheRoutines :
          /\ Reads(p) => HoldsRead(p)
          /\ Writes(p) => HoldsWrite(p)
          /\ HoldsWrite(p) => \A q \in CacheRoutines \ {p} :
                                 ~HoldsRead(q) /\ ~Reads(q) /\ ~Writes(q))
  /\ [](mutex.readers = Cardinality({p \in CacheRoutines : HoldsRead(p)}))
  /\ [](mutex.exclusive => mutex.readers = 0)
  /\ [][Counts(entries') # Counts(entries) =>
          \E p \in CacheRoutines : Writes(p) /\ HoldsWrite(p)]_vars
  /\ [][At("cleanup", "cleanup:range") =>
          \A h \in DOMAIN entries \ DOMAIN entries' : entries[h].age > TTL]_vars

\* the sweep holds the write lock with an expired entry and a fresh one in
\* the map, while one lookup waits to store its result and Stats cannot start
C32_Witness ==
  /\ At("cleanup", "cleanup:range")
  /\ \E h \in DOMAIN entries : entries[h].age > TTL
  /\ \E h \in DOMAIN entries : entries[h].age <= TTL
  /\ \E p \in Lookups : At(p, "client")
  /\ At("admin", "idle")
  /\ ~ENABLED lockedStats


\* C40: while GetDashboardStats is running, some goroutine of the store can
\* take a step: the store is never left with the dashboard request waiting
\* and nothing able to move
C40_DashboardCompletes ==
  storeRoutines["dashboard"].pc # "idle" => ENABLED NextStoreLocks


(***************************************************************************)
(* Properties of the page agent: the paths of an attempt to the outcome    *)
(* check and what the emitted message carries.                             *)
(***************************************************************************)
\* the outcome checks started and the messages sent for attempt a
ChecksOf(a) == {m \in monitors : m.aid = a}
MessagesOf(a) == {messages[i] : i \in {j \in 1..Len(messages) : messages[j].aid = a}}

\* C33: the MFA flag is never set while a login is pending, and an attempt
\* whose MFA-wait timer expired runs its outcome check, and sends its
\* message, with hasMFA false and no mfaType
C33_ExpiryCarriesNoMFA ==
  /\ ~(hasMFADetected /\ pendingLoginData # NULL)
  /\ \A a \in history.expired :
        \A m \in ChecksOf(a) \cup MessagesOf(a) :
           m.hasMFA = FALSE /\ m.mfaType = Undefined

\* the message of an attempt that left the MFA wait by expiry has been sent
\* from a page on which a scan has registered a one-time-code field
C33_Witness ==
  /\ MFAObserved
  /\ \E a \in history.expired : MessagesOf(a) # {}


\* this step is a scan: the initial one, or the one after an insertion
Scans == initialize \/ observeDOMChanges

\* a scan empties the capture buffer, lists only fields it registers in this
\* step, and sets the MFA flag exactly when one of them is a one-time-code
\* field
C34_ScanStep ==
  Scans =>
     /\ formData' = EmptyFormData
     /\ (Range(passwordFields') \cup Range(usernameFields')
           \cup Range(mfaFields')) \cap monitoredElements = {}
     /\ hasMFADetected' = (mfaFields' # <<>>)
     /\ (observeDOMChanges /\ dom' = dom \cup OtherNodes) => ~hasMFADetected'

\* a trigger that creates an attempt while the flag is false arms the
\* MFA-wait timer and starts no outcome check
C34_TriggerStep ==
  (NewAttempt /\ ~hasMFADetected) =>
     /\ pendingLoginData' # NULL
     /\ pendingLoginData'.timeoutId = nextId
     /\ \E t \in timers' : t.timeoutId = nextId /\ t.remaining = MFA_WAIT_TIME
     /\ monitors' = monitors

LastInvoked == history.invoked[Len(history.invoked)]

\* C35: lastSentLogin is the record of the attempt whose outcome check was
\* started last and carries the time of that attempt's trigger, whichever
\* path started the check; a record written when the MFA wait expired is no
\* younger than DEBOUNCE_TIME and makes no trigger a duplicate
C35_RecordCarriesTriggerTime ==
  /\ (history.invoked = <<>>) <=> (lastSentLogin = NULL)
  /\ history.invoked # <<>> =>
        /\ lastSentLogin.domain = history.trig[LastInvoked].domain
        /\ lastSentLogin.username = history.trig[LastInvoked].username
        /\ lastSentLogin.age = history.trig[LastInvoked].age
        /\ LastInvoked \in history.expired =>
              /\ lastSentLogin.age >= DEBOUNCE_TIME
              /\ ~IsDuplicate(lastSentLogin.domain, lastSentLogin.username)

\* a trigger for the account of the record written at an expiry has just
\* created a new attempt
C35_Witness ==
  /\ history.invoked # <<>>
  /\ LastInvoked \in history.expired
  /\ pendingLoginData # NULL
  /\ pendingLoginData.age = 0
  /\ pendingLoginData.domain = lastSentLogin.domain
  /\ pendingLoginData.username = lastSentLogin.username


\* the attempts created so far
Attempts == 1..(nextId - 1)

\* how many messages were sent for attempt a
Sendings(a) == Cardinality({i \in 1..Len(messages) : messages[i].aid = a})

\* the outcome check of attempt a was started by the trigger itself
Direct(a) == Invoked(a) /\ a \notin history.expired \cup history.cleared

\* C36: the outcome check of an attempt is started at most once, by the
\* trigger, by the scan that finds an MFA field, or by the expiry of the
\* timer, never by two of them; at most one poll loop runs for it and at
\* most one message is sent for it, after its loop has ended
C36_OneOutcomeCheckPerAttempt ==
  \A a \in Attempts :
     /\ Invocations(a) <= 1
     /\ ~(a \in history.expired /\ a \in history.cleared)
     /\ a \in history.expired => Invoked(a)
     /\ Cardinality(ChecksOf(a)) <= 1
     /\ Sendings(a) <= 1
     /\ (Running(a) \/ Emitted(a)) => Invoked(a)
     /\ ~(Running(a) /\ Emitted(a))

\* one attempt went through the scan fast path and has sent its message,
\* another was started by its trigger
C36_Witness ==
  /\ \E a \in history.cleared \ history.superseded : Sendings(a) = 1
  /\ \E b \in Attempts : Direct(b)


\* what was in effect when attempt a was triggered
AtTrigger(a) ==
  [domain |-> history.trig[a].domain, username |-> history.trig[a].username,
   password |-> history.trig[a].password]

Carried(m) ==
  [domain |-> m.domain, username |-> m.username, password |-> m.password]

\* C37: the message of an attempt, like its timer and its poll loop before,
\* carries the origin, the username and the password its trigger read,
\* whatever was typed, scanned or sent since
C37_EventCarriesTriggerValues ==
  /\ \A i \in 1..Len(messages) :
        Carried(messages[i]) = AtTrigger(messages[i].aid)
  /\ \A m \in monitors : Carried(m) = AtTrigger(m.aid)
  /\ \A t \in timers : Carried(t) = AtTrigger(t.timeoutId)

\* the message of the first attempt has been sent; the fields have been
\* retyped since its trigger, and a second attempt for another account and
\* another password waits for a second factor
C37_Witness ==
  /\ Len(messages) = 1
  /\ value["userA"] # messages[1].username
  /\ value["passA"] # messages[1].password
  /\ \E t \in timers :
        /\ t.remaining < MFA_WAIT_TIME
        /\ t.username # messages[1].username
        /\ t.password # messages[1].password

(***************************************************************************)
(* Order of the checks in one poll.                                        *)
(***************************************************************************)

\* C38: a poll that finds a failure signal together with a success signal or
\* a changed location discards the attempt: that step sends nothing and arms
\* no further poll, and the attempt never has a message.
C38_ConflictStep ==
  \A m \in monitors :
     (Polled(m) /\ SeesFailure /\ SeesSuccess(m)) =>
        /\ messages' = messages
        /\ formData' = formData
        /\ \A m2 \in monitors' : m2.aid # m.aid

C38_FailureCheckedFirst ==
  /\ [][C38_ConflictStep]_vars
  /\ [](\A a \in history.conflict :
           a \in history.discarded /\ ~Emitted(a) /\ ~Running(a))

\* an attempt was discarded at a poll that saw the failure banner, the
\* success marker and a changed location at once
C38_Witness ==
  \E a \in history.conflict :
     /\ a \in history.discarded
     /\ ~Emitted(a)
     /\ failureShown /\ successShown /\ url # 0

(***************************************************************************)
(* The MFA flag and the MFA type of an attempt.                            *)
(***************************************************************************)

\* hasMFA and mfaType of a poll loop or a message agree
TypeAgrees(m) ==
  /\ m.hasMFA => m.mfaType = "TOTP"
  /\ ~m.hasMFA => m.mfaType = Undefined

\* C39: every message sent, and every outcome check on its way to one, has
\* mfaType "TOTP" when hasMFA is true and no mfaType when hasMFA is false,
\* whichever of the three paths started the check and however scans that
\* reset the detected type interleave; between callbacks the detected type
\* is "TOTP" exactly when the flag is set.
C39_TypeFollowsFlag ==
  /\ \A i \in 1..Len(messages) : TypeAgrees(messages[i])
  /\ \A m \in monitors : TypeAgrees(m)
  /\ pc = "ready" =>
        detectedMFAType = (IF hasMFADetected THEN "TOTP" ELSE "")

\* a message with MFA and one without have been sent, and the last scan
\* has reset the detected type
C39_Witness ==
  /\ \E i, j \in 1..Len(messages) :
        /\ messages[i].hasMFA /\ messages[i].mfaType = "TOTP"
        /\ ~messages[j].hasMFA /\ messages[j].aid \in history.expired
  /\ ~hasMFADetected
  /\ detectedMFAType = ""

=============================================================================
